---------------------------- MODULE Spec2Model ----------------------------
(***************************************************************************)
(* Model of the helix-tools/sdk-go dataset pipeline: the producer's        *)
(* compress-then-encrypt upload (producer/producer.go), the envelope       *)
(* container (encryptData / decryptData), the consumer's download          *)
(* (consumer/consumer.go) and the dataset identity derivation              *)
(* (dataset_payload.go).                                                   *)
(*                                                                         *)
(* Bytes are naturals 0..255 and byte strings are sequences of them.       *)
(* Collaborators that are not part of the repository (the catalog API,     *)
(* object storage behind presigned URLs, KMS) answer nondeterministically: *)
(* every answer the calling code distinguishes is one choice.              *)
(***************************************************************************)
EXTENDS Integers, Sequences, FiniteSets, TLC

(***************************************************************************)
(* Bounds of the model.                                                    *)
(***************************************************************************)
MaxFileLen == 2
MaxPlainLen == 2
MaxCalls == 2
MaxClock == 2
MaxDownloads == 1

(***************************************************************************)
(* Byte-string helpers.                                                    *)
(***************************************************************************)
RECURSIVE SeqsUpTo(_, _)
SeqsUpTo(S, n) ==
    IF n = 0 THEN {<<>>}
    ELSE LET shorter == SeqsUpTo(S, n - 1)
         IN  shorter \cup {Append(s, x) : s \in {t \in shorter : Len(t) = n - 1}, x \in S}

RECURSIVE SumBytes(_)
SumBytes(s) == IF s = <<>> THEN 0 ELSE Head(s) + SumBytes(Tail(s))

Take(s, n) == SubSeq(s, 1, IF n < Len(s) THEN n ELSE Len(s))
Drop(s, n) == SubSeq(s, n + 1, Len(s))
Zeros(n) == [i \in 1..n |-> 0]

(* crypto/rand.Read fills a buffer of n bytes; the model draws the fill     *)
(* from a small set of seeds.                                               *)
RandSeeds == {3, 200}
RandBytes(n) == {[i \in 1..n |-> (s + i) % 256] : s \in RandSeeds}

(***************************************************************************)
(* gzip (compress/gzip): header, deflate body, trailer with a checksum and *)
(* the input size.  The deflate body is modelled as run-length pairs.      *)
(***************************************************************************)
GzipHeader == <<31, 139, 8>>

RECURSIVE RunLen(_, _)
RunLen(s, b) == IF s # <<>> /\ Head(s) = b THEN 1 + RunLen(Tail(s), b) ELSE 0

RECURSIVE Deflate(_)
Deflate(s) ==
    IF s = <<>> THEN <<>>
    ELSE LET n == RunLen(s, Head(s))
         IN  <<n, Head(s)>> \o Deflate(Drop(s, n))

RECURSIVE Inflate(_)
Inflate(s) ==
    IF Len(s) < 2 THEN <<>>
    ELSE [i \in 1..s[1] |-> s[2]] \o Inflate(Drop(s, 2))

GzipLevelOK(level) == level >= -2 /\ level <= 9

(* compressData: fails when gzip.NewWriterLevel rejects the level.          *)
compressData(data, level) ==
    IF ~GzipLevelOK(level)
    THEN [err |-> "failed to create gzip writer", data |-> <<>>]
    ELSE [err |-> "nil",
          data |-> GzipHeader \o Deflate(data)
                   \o <<SumBytes(data) % 256, Len(data) % 256>>]

(* decompressData: gzip.NewReader rejects a bad header, io.ReadAll rejects  *)
(* a body whose checksum or size does not match the trailer.                *)
decompressData(data) ==
    IF Len(data) < 5 \/ Take(data, 3) # GzipHeader
    THEN [err |-> "gzip: invalid header", data |-> <<>>]
    ELSE LET body == SubSeq(data, 4, Len(data) - 2)
             out  == Inflate(body)
         IN  IF Len(body) % 2 = 0
                /\ Deflate(out) = body
                /\ data[Len(data) - 1] = SumBytes(out) % 256
                /\ data[Len(data)] = Len(out) % 256
             THEN [err |-> "nil", data |-> out]
             ELSE [err |-> "gzip: invalid checksum", data |-> <<>>]

(***************************************************************************)
(* AES-256-GCM with a 16-byte nonce (crypto/cipher).  Seal returns the     *)
(* ciphertext with the 16-byte tag appended; Open checks the tag first.    *)
(* The keystream and the tag are modelled as byte arithmetic over key, iv  *)
(* and ciphertext.                                                         *)
(***************************************************************************)
KeySize == 32
IvSize == 16
TagSize == 16
KeyLenSize == 4

KeyStream(key, iv, i) ==
    (key[((i - 1) % KeySize) + 1] + iv[((i - 1) % IvSize) + 1] + i) % 256

GcmTag(key, iv, ct) ==
    [j \in 1..TagSize |-> (SumBytes(ct) + Len(ct) + key[j] + iv[j] + j) % 256]

Seal(key, iv, pt) ==
    LET ct == [i \in 1..Len(pt) |-> (pt[i] + KeyStream(key, iv, i)) % 256]
    IN  ct \o GcmTag(key, iv, ct)

Open(key, iv, sealed) ==
    IF Len(sealed) < TagSize
    THEN [err |-> "cipher: message authentication failed", data |-> <<>>]
    ELSE LET ct  == Take(sealed, Len(sealed) - TagSize)
             tag == Drop(sealed, Len(sealed) - TagSize)
         IN  IF tag # GcmTag(key, iv, ct)
             THEN [err |-> "cipher: message authentication failed", data |-> <<>>]
             ELSE [err |-> "nil",
                   data |-> [i \in 1..Len(ct) |->
                               (ct[i] + 256 - KeyStream(key, iv, i)) % 256]]

(***************************************************************************)
(* encoding/binary, big endian, 32 bits.                                   *)
(***************************************************************************)
PutUint32BE(n) ==
    <<(n \div 16777216) % 256, (n \div 65536) % 256, (n \div 256) % 256, n % 256>>

(* A value of 2^31 or more stands as 2^31 - 1: it is only ever compared     *)
(* with the number of bytes left to read.                                  *)
Uint32BE(b) ==
    IF b[1] >= 128 THEN 2147483647
    ELSE b[1] * 16777216 + b[2] * 65536 + b[3] * 256 + b[4]

(***************************************************************************)
(* KMS, the key-wrapping collaborator.  Encrypt answers with an error or   *)
(* with an opaque blob whose length KMS decides; Decrypt recovers the key  *)
(* of a blob KMS issued and rejects any other blob.  store maps the blobs  *)
(* issued so far to their keys.                                            *)
(***************************************************************************)
KmsBlob(key, n) == [i \in 1..n |-> (key[1] + 7 * i) % 256]

KmsEncryptOutcomes(key, lens) ==
    {[err |-> "kms unavailable", CiphertextBlob |-> <<>>]}
    \cup {[err |-> "nil", CiphertextBlob |-> KmsBlob(key, n)] : n \in lens}

(* The blob handed to Decrypt is read.got followed by read.pad zero bytes.  *)
IsBuffer(b, read) ==
    /\ Len(b) = Len(read.got) + read.pad
    /\ SubSeq(b, 1, Len(read.got)) = read.got
    /\ \A i \in (Len(read.got) + 1)..Len(b) : b[i] = 0

KmsDecrypt(store, read) ==
    IF \E b \in DOMAIN store : IsBuffer(b, read)
    THEN [err |-> "nil", Plaintext |-> store[CHOOSE b \in DOMAIN store : IsBuffer(b, read)]]
    ELSE [err |-> "InvalidCiphertextException", Plaintext |-> <<>>]

KmsIssue(store, blob, key) ==
    [b \in DOMAIN store \cup {blob} |-> IF b = blob THEN key ELSE store[b]]

(* A variant of encryptData that keeps the cipher's native order and       *)
(* writes the ciphertext before the tag.                                   *)
encryptDataTagLast(KMSKeyID, data, dataKey, iv, kmsOut) ==
    IF KMSKeyID = ""
    THEN [err |-> "KMS key not configured, cannot encrypt data", data |-> <<>>]
    ELSE IF kmsOut.err # "nil"
    THEN [err |-> "KMS encryption failed", data |-> <<>>]
    ELSE [err |-> "nil",
          data |-> PutUint32BE(Len(kmsOut.CiphertextBlob)) \o kmsOut.CiphertextBlob
                   \o iv \o Seal(dataKey, iv, data)]

(***************************************************************************)
(* Producer.encryptData: seal, split off the tag, wrap the key, then write *)
(* the container field by field into a buffer.                             *)
(***************************************************************************)
encryptData(KMSKeyID, data, dataKey, iv, kmsOut) ==
    IF KMSKeyID = ""
    THEN [err |-> "KMS key not configured, cannot encrypt data", data |-> <<>>]
    ELSE LET encryptedData       == Seal(dataKey, iv, data)
             authTagSize         == TagSize
             actualEncryptedData == Take(encryptedData, Len(encryptedData) - authTagSize)
             authTag             == Drop(encryptedData, Len(encryptedData) - authTagSize)
         IN  IF kmsOut.err # "nil"
             THEN [err |-> "KMS encryption failed", data |-> <<>>]
             ELSE LET w0 == <<>>
                      w1 == w0 \o PutUint32BE(Len(kmsOut.CiphertextBlob))
                      w2 == w1 \o kmsOut.CiphertextBlob
                      w3 == w2 \o iv
                      w4 == w3 \o authTag
                      w5 == w4 \o actualEncryptedData
                  IN  [err |-> "nil", data |-> w5]

(***************************************************************************)
(* bytes.Reader.Read: at the end of the input it fails with EOF; otherwise *)
(* it copies what is left, at most n bytes, and reports no error, so the   *)
(* caller's buffer keeps its zero fill after a short read: the buffer is   *)
(* got followed by pad zero bytes.                                         *)
(***************************************************************************)
ReaderRead(s, pos, n) ==
    IF pos >= Len(s)
    THEN [err |-> "EOF", got |-> <<>>, pad |-> n, pos |-> pos]
    ELSE LET k == IF Len(s) - pos < n THEN Len(s) - pos ELSE n
         IN  [err |-> "nil",
              got |-> SubSeq(s, pos + 1, pos + k),
              pad |-> n - k,
              pos |-> pos + k]

Buffer(read) == read.got \o Zeros(read.pad)

(* binary.Read of a uint32 uses io.ReadFull: fewer than 4 bytes is an error. *)
BinaryReadUint32(s, pos) ==
    IF Len(s) - pos <= 0 THEN [err |-> "EOF", val |-> 0, pos |-> pos]
    ELSE IF Len(s) - pos < KeyLenSize
         THEN [err |-> "unexpected EOF", val |-> 0, pos |-> Len(s)]
         ELSE [err |-> "nil",
               val |-> Uint32BE(SubSeq(s, pos + 1, pos + KeyLenSize)),
               pos |-> pos + KeyLenSize]

(***************************************************************************)
(* Consumer.decryptData: parse the container, unwrap the key, open.  The   *)
(* result also tells the step that ended the call and what was parsed.     *)
(***************************************************************************)
NoParsed ==
    [encryptedKey |-> [err |-> "nil", got |-> <<>>, pad |-> 0, pos |-> 0],
     iv |-> <<>>, authTag |-> <<>>, encryptedData |-> <<>>]

DecryptFailed(err, step, parsed) ==
    [err |-> err, data |-> <<>>, step |-> step, parsed |-> parsed]

(* A variant of decryptData that opens the ciphertext without appending    *)
(* the tag it read.                                                        *)
decryptDataTagNotAppended(data, store, kmsUp) ==
    LET rl == BinaryReadUint32(data, 0)
    IN  IF rl.err # "nil" THEN DecryptFailed(rl.err, "keyLen", NoParsed)
        ELSE
        LET rk == ReaderRead(data, rl.pos, rl.val)
        IN  IF rk.err # "nil" THEN DecryptFailed(rk.err, "encryptedKey", NoParsed)
            ELSE
            LET ri == ReaderRead(data, rk.pos, IvSize)
            IN  IF ri.err # "nil" THEN DecryptFailed(ri.err, "iv", NoParsed)
                ELSE
                LET rt == ReaderRead(data, ri.pos, TagSize)
                IN  IF rt.err # "nil" THEN DecryptFailed(rt.err, "authTag", NoParsed)
                    ELSE
                    LET encryptedData == Drop(data, rt.pos)
                        parsed        == [encryptedKey |-> rk, iv |-> Buffer(ri),
                                          authTag |-> Buffer(rt),
                                          encryptedData |-> encryptedData]
                        decryptOut    == IF kmsUp THEN KmsDecrypt(store, rk)
                                         ELSE [err |-> "kms unavailable", Plaintext |-> <<>>]
                    IN  IF decryptOut.err # "nil"
                        THEN DecryptFailed("KMS decrypt failed", "kms", parsed)
                        ELSE IF Len(decryptOut.Plaintext) \notin {16, 24, 32}
                        THEN DecryptFailed("crypto/aes: invalid key size", "cipher", parsed)
                        ELSE LET opened == Open(decryptOut.Plaintext, Buffer(ri), encryptedData)
                             IN  IF opened.err # "nil"
                                 THEN DecryptFailed("AES-GCM decrypt failed", "open", parsed)
                                 ELSE [err |-> "nil", data |-> opened.data,
                                       step |-> "done", parsed |-> parsed]

decryptData(data, store, kmsUp) ==
    LET rl == BinaryReadUint32(data, 0)
    IN  IF rl.err # "nil" THEN DecryptFailed(rl.err, "keyLen", NoParsed)
        ELSE
        LET rk == ReaderRead(data, rl.pos, rl.val)
        IN  IF rk.err # "nil" THEN DecryptFailed(rk.err, "encryptedKey", NoParsed)
            ELSE
            LET ri == ReaderRead(data, rk.pos, IvSize)
            IN  IF ri.err # "nil" THEN DecryptFailed(ri.err, "iv", NoParsed)
                ELSE
                LET rt == ReaderRead(data, ri.pos, TagSize)
                IN  IF rt.err # "nil" THEN DecryptFailed(rt.err, "authTag", NoParsed)
                    ELSE
                    LET encryptedData == Drop(data, rt.pos)
                        parsed        == [encryptedKey |-> rk, iv |-> Buffer(ri),
                                          authTag |-> Buffer(rt),
                                          encryptedData |-> encryptedData]
                        decryptOut    == IF kmsUp THEN KmsDecrypt(store, rk)
                                         ELSE [err |-> "kms unavailable", Plaintext |-> <<>>]
                    IN  IF decryptOut.err # "nil"
                        THEN DecryptFailed("KMS decrypt failed", "kms", parsed)
                        ELSE IF Len(decryptOut.Plaintext) \notin {16, 24, 32}
                        THEN DecryptFailed("crypto/aes: invalid key size", "cipher", parsed)
                        ELSE LET opened == Open(decryptOut.Plaintext, Buffer(ri),
                                                encryptedData \o Buffer(rt))
                             IN  IF opened.err # "nil"
                                 THEN DecryptFailed("AES-GCM decrypt failed", "open", parsed)
                                 ELSE [err |-> "nil", data |-> opened.data,
                                       step |-> "done", parsed |-> parsed]

(***************************************************************************)
(* Go maps as functions; nil and the empty map behave alike for the reads  *)
(* and copies the code makes.                                              *)
(***************************************************************************)
EmptyMap == [k \in {} |-> TRUE]

(* maps.Copy(dst, src) *)
MapsCopy(dst, src) ==
    [k \in DOMAIN dst \cup DOMAIN src |-> IF k \in DOMAIN src THEN src[k] ELSE dst[k]]

(***************************************************************************)
(* The source file.  Its bytes are drawn from '\n', '{' and '}', so the    *)
(* only line that parses as a JSON object is "{}".                         *)
(***************************************************************************)
FileBytes == {10, 123, 125}

Files ==
    {[exists |-> FALSE, data |-> <<>>]}
    \cup {[exists |-> TRUE, data |-> d] : d \in SeqsUpTo(FileBytes, MaxFileLen)}

RECURSIVE SplitLines(_, _)
SplitLines(s, cur) ==
    IF s = <<>> THEN (IF cur = <<>> THEN <<>> ELSE <<cur>>)
    ELSE IF Head(s) = 10 THEN <<cur>> \o SplitLines(Tail(s), <<>>)
    ELSE SplitLines(Tail(s), Append(cur, Head(s)))

(* Producer.analyzeData on such a file: blank lines are skipped, "{}" is a  *)
(* record without fields, any other line is a parse error.                  *)
analyzeData(f) ==
    IF ~f.exists
    THEN [err |-> "failed to open file", RecordCount |-> 0, AnalysisErrors |-> 0,
          Schema |-> EmptyMap, FieldEmptiness |-> EmptyMap]
    ELSE LET lines       == SplitLines(f.data, <<>>)
             nonBlank    == {i \in 1..Len(lines) : lines[i] # <<>>}
             recordCount == Cardinality({i \in nonBlank : lines[i] = <<123, 125>>})
         IN  [err |-> "nil",
              RecordCount |-> recordCount,
              AnalysisErrors |-> Cardinality(nonBlank) - recordCount,
              Schema |-> IF recordCount > 0
                         THEN [type |-> "object", properties |-> EmptyMap]
                         ELSE EmptyMap,
              FieldEmptiness |-> EmptyMap]

(***************************************************************************)
(* UploadOptions.                                                          *)
(***************************************************************************)
DatasetNames == {"sales", "stock"}

(* NewUploadOptions *)
NewUploadOptions(datasetName) ==
    [DatasetName |-> datasetName, Category |-> "general", DataFreshness |-> "daily",
     Encrypt |-> TRUE, Compress |-> TRUE, CompressionLevel |-> 6,
     Description |-> "", Metadata |-> EmptyMap, DatasetOverrides |-> EmptyMap]

FlagsBoth == [encryption_enabled |-> TRUE, compression_enabled |-> TRUE]
FlagsEncryptionOnly == [encryption_enabled |-> TRUE]

(* The option values a caller passes in the model.                          *)
UploadOptionsChoices ==
    {NewUploadOptions(n) : n \in DatasetNames}
    \cup {[NewUploadOptions("sales") EXCEPT !.Encrypt = FALSE],
          [NewUploadOptions("sales") EXCEPT !.Compress = FALSE],
          [NewUploadOptions("sales") EXCEPT !.CompressionLevel = 10],
          [NewUploadOptions("sales") EXCEPT !.Category = "", !.DataFreshness = "",
                                            !.CompressionLevel = 0],
          [NewUploadOptions("sales") EXCEPT !.Metadata = FlagsBoth],
          [NewUploadOptions("sales") EXCEPT !.Metadata = FlagsEncryptionOnly],
          [NewUploadOptions("sales") EXCEPT !.DatasetOverrides = [_id |-> <<"custom", 0>>]]}

(* UploadDataset, the defaults for fields not specified.                    *)
ApplyDefaults(opts) ==
    [opts EXCEPT !.Category = IF @ = "" THEN "general" ELSE @,
                 !.DataFreshness = IF @ = "" THEN "daily" ELSE @,
                 !.CompressionLevel = IF @ = 0 THEN 6 ELSE @]

(* A variant that degrades instead of failing when no KMS key is           *)
(* configured, and accepts disabled protection.                            *)
ValidateUploadDegrading(KMSKeyID, opts) ==
    IF opts.Encrypt /\ KMSKeyID = ""
    THEN [err |-> "nil", opts |-> [opts EXCEPT !.Encrypt = FALSE]]
    ELSE [err |-> "nil", opts |-> opts]

(* UploadDataset, "Validate encryption capability".                         *)
ValidateUpload(KMSKeyID, opts) ==
    IF ~opts.Encrypt
    THEN [err |-> "encryption is required for dataset uploads", opts |-> opts]
    ELSE IF ~opts.Compress
    THEN [err |-> "compression is required for dataset uploads", opts |-> opts]
    ELSE IF opts.Encrypt /\ KMSKeyID = ""
    THEN [err |-> "encryption requested but KMS key not found", opts |-> opts]
    ELSE [err |-> "nil", opts |-> opts]

(***************************************************************************)
(* Events of one call, in the order the code performs them.                *)
(***************************************************************************)
Ev(op, in, out, status) == [op |-> op, in |-> in, out |-> out, status |-> status]

HasOp(trace, op) == \E i \in 1..Len(trace) : trace[i].op = op

(* createDatasetRecord, the payload it builds before the POST.              *)
createDatasetPayload(CustomerID, opts, f) ==
    LET analysisResult == analyzeData(f)
        base     == MapsCopy(EmptyMap, opts.Metadata)
        metadata == IF analysisResult.err # "nil" THEN base
                    ELSE MapsCopy(base,
                           IF analysisResult.AnalysisErrors > 0
                           THEN [schema |-> analysisResult.Schema,
                                 field_emptiness |-> analysisResult.FieldEmptiness,
                                 record_count |-> analysisResult.RecordCount,
                                 analysis_errors |-> analysisResult.AnalysisErrors]
                           ELSE [schema |-> analysisResult.Schema,
                                 field_emptiness |-> analysisResult.FieldEmptiness,
                                 record_count |-> analysisResult.RecordCount])
        payload  == [name |-> opts.DatasetName,
                     description |-> opts.Description,
                     category |-> opts.Category,
                     data_freshness |-> opts.DataFreshness,
                     producer_id |-> CustomerID,
                     metadata |-> metadata]
    IN  MapsCopy(payload, opts.DatasetOverrides)

ProcessFailed(msg, events) ==
    [err |-> msg, Data |-> <<>>, OriginalSize |-> 0, Sizes |-> EmptyMap, events |-> events]

(* A variant of processFile that encrypts the source bytes and compresses  *)
(* the envelope.                                                           *)
processFileEncryptFirst(KMSKeyID, opts, f, dataKey, iv, kmsOut) ==
    IF ~opts.Encrypt
    THEN ProcessFailed("encryption is required for dataset uploads", <<>>)
    ELSE IF ~opts.Compress
    THEN ProcessFailed("compression is required for dataset uploads", <<>>)
    ELSE IF opts.Encrypt /\ KMSKeyID = ""
    THEN ProcessFailed("encryption requested but KMS key not found", <<>>)
    ELSE IF ~f.exists
    THEN ProcessFailed("failed to read file", <<Ev("readfile", <<>>, <<>>, "error")>>)
    ELSE
    LET data0        == f.data
        originalSize == Len(data0)
        e0           == <<Ev("readfile", <<>>, data0, "ok")>>
    IN  IF originalSize = 0
        THEN ProcessFailed("file is empty", e0)
        ELSE
        LET encrypted == encryptData(KMSKeyID, data0, dataKey, iv, kmsOut)
            e1        == Append(e0, Ev("encrypt", data0, encrypted.data, encrypted.err))
        IN  IF encrypted.err # "nil"
            THEN ProcessFailed("encryption failed", e1)
            ELSE
            LET compressed == compressData(encrypted.data, opts.CompressionLevel)
                e2 == Append(e1, Ev("compress", encrypted.data, compressed.data,
                                    compressed.err))
            IN  IF compressed.err # "nil"
                THEN ProcessFailed("compression failed", e2)
                ELSE [err |-> "nil",
                      Data |-> compressed.data,
                      OriginalSize |-> originalSize,
                      Sizes |-> [original_size_bytes |-> originalSize,
                                 compressed_size_bytes |-> Len(compressed.data),
                                 encrypted_size_bytes |-> Len(encrypted.data),
                                 encryption_enabled |-> opts.Encrypt,
                                 compression_enabled |-> opts.Compress],
                      events |-> e2]

(* A variant of processFile without the empty-file check.                   *)
processFileNoEmptyCheck(KMSKeyID, opts, f, dataKey, iv, kmsOut) ==
    IF ~opts.Encrypt
    THEN ProcessFailed("encryption is required for dataset uploads", <<>>)
    ELSE IF ~opts.Compress
    THEN ProcessFailed("compression is required for dataset uploads", <<>>)
    ELSE IF opts.Encrypt /\ KMSKeyID = ""
    THEN ProcessFailed("encryption requested but KMS key not found", <<>>)
    ELSE IF ~f.exists
    THEN ProcessFailed("failed to read file", <<Ev("readfile", <<>>, <<>>, "error")>>)
    ELSE
    LET data0        == f.data
        originalSize == Len(data0)
        e0           == <<Ev("readfile", <<>>, data0, "ok")>>
    IN
        LET sizes0     == [original_size_bytes |-> originalSize,
                           compressed_size_bytes |-> originalSize,
                           encrypted_size_bytes |-> originalSize,
                           encryption_enabled |-> opts.Encrypt,
                           compression_enabled |-> opts.Compress]
            compressed == compressData(data0, opts.CompressionLevel)
            e1         == Append(e0, Ev("compress", data0, compressed.data, compressed.err))
        IN  IF compressed.err # "nil"
            THEN ProcessFailed("compression failed", e1)
            ELSE
            LET data1     == compressed.data
                sizes1    == [sizes0 EXCEPT !.compressed_size_bytes = Len(data1)]
                encrypted == encryptData(KMSKeyID, data1, dataKey, iv, kmsOut)
                e2        == Append(e1, Ev("encrypt", data1, encrypted.data, encrypted.err))
            IN  IF encrypted.err # "nil"
                THEN ProcessFailed("encryption failed", e2)
                ELSE [err |-> "nil",
                      Data |-> encrypted.data,
                      OriginalSize |-> originalSize,
                      Sizes |-> [sizes1 EXCEPT !.encrypted_size_bytes = Len(encrypted.data)],
                      events |-> e2]

(***************************************************************************)
(* Producer.processFile: validate, read, reject an empty file, compress,   *)
(* then encrypt.                                                           *)
(***************************************************************************)
processFile(KMSKeyID, opts, f, dataKey, iv, kmsOut) ==
    IF ~opts.Encrypt
    THEN ProcessFailed("encryption is required for dataset uploads", <<>>)
    ELSE IF ~opts.Compress
    THEN ProcessFailed("compression is required for dataset uploads", <<>>)
    ELSE IF opts.Encrypt /\ KMSKeyID = ""
    THEN ProcessFailed("encryption requested but KMS key not found", <<>>)
    ELSE IF ~f.exists
    THEN ProcessFailed("failed to read file", <<Ev("readfile", <<>>, <<>>, "error")>>)
    ELSE
    LET data0        == f.data
        originalSize == Len(data0)
        e0           == <<Ev("readfile", <<>>, data0, "ok")>>
    IN  IF originalSize = 0
        THEN ProcessFailed("file is empty", e0)
        ELSE
        LET sizes0     == [original_size_bytes |-> originalSize,
                           compressed_size_bytes |-> originalSize,
                           encrypted_size_bytes |-> originalSize,
                           encryption_enabled |-> opts.Encrypt,
                           compression_enabled |-> opts.Compress]
            compressed == compressData(data0, opts.CompressionLevel)
            e1         == Append(e0, Ev("compress", data0, compressed.data, compressed.err))
        IN  IF compressed.err # "nil"
            THEN ProcessFailed("compression failed", e1)
            ELSE
            LET data1     == compressed.data
                sizes1    == [sizes0 EXCEPT !.compressed_size_bytes = Len(data1)]
                encrypted == encryptData(KMSKeyID, data1, dataKey, iv, kmsOut)
                e2        == Append(e1, Ev("encrypt", data1, encrypted.data, encrypted.err))
            IN  IF encrypted.err # "nil"
                THEN ProcessFailed("encryption failed", e2)
                ELSE [err |-> "nil",
                      Data |-> encrypted.data,
                      OriginalSize |-> originalSize,
                      Sizes |-> [sizes1 EXCEPT !.encrypted_size_bytes = Len(encrypted.data)],
                      events |-> e2]

(***************************************************************************)
(* Consumer.DownloadDataset, the processing both the staged and the        *)
(* in-memory path apply to the downloaded bytes: decrypt first, then       *)
(* decompress.                                                             *)
(***************************************************************************)
DownloadFailed(msg, events) == [err |-> msg, data |-> <<>>, events |-> events]

processDownloaded(data0, isEncrypted, isCompressed, store, kmsUp) ==
    LET dec == IF isEncrypted THEN decryptData(data0, store, kmsUp)
               ELSE [err |-> "nil", data |-> data0]
        e1  == IF isEncrypted THEN <<Ev("decrypt", data0, dec.data, dec.err)>> ELSE <<>>
    IN  IF dec.err # "nil" THEN DownloadFailed("decryption failed", e1)
        ELSE
        LET gz == IF isCompressed THEN decompressData(dec.data)
                  ELSE [err |-> "nil", data |-> dec.data]
            e2 == IF isCompressed THEN Append(e1, Ev("decompress", dec.data, gz.data, gz.err))
                  ELSE e1
        IN  IF gz.err # "nil" THEN DownloadFailed("decompression failed", e2)
            ELSE [err |-> "nil", data |-> gz.data, events |-> e2]

largeFileThreshold == 100 * 1024 * 1024

(***************************************************************************)
(* The catalog API, the object store and their identifiers.                *)
(***************************************************************************)
ServerID(n) == <<"ds", n>>

S3KeyOf(name) == <<"datasets", name, "data.ndjson.gz">>

NameTaken(cat, payload) ==
    \E id \in DOMAIN cat :
        cat[id].name = payload.name /\ cat[id].producer_id = payload.producer_id

(* POST /v1/datasets: the answers the API can give to a create request.     *)
CatalogCreateOutcomes(cat, next, payload) ==
    LET wanted == IF "_id" \in DOMAIN payload THEN payload._id ELSE ServerID(next)
    IN  {[status |-> 500, id |-> wanted]}
        \cup (IF wanted \in DOMAIN cat \/ NameTaken(cat, payload)
              THEN {[status |-> 409, id |-> wanted]} ELSE {})
        \cup (IF wanted \notin DOMAIN cat
              THEN {[status |-> 201, id |-> wanted]} ELSE {})

CatalogPut(cat, id, payload) ==
    [i \in DOMAIN cat \cup {id} |-> IF i = id THEN payload ELSE cat[i]]

BucketPut(b, key, data) ==
    [k \in DOMAIN b \cup {key} |-> IF k = key THEN data ELSE b[k]]

(* The Dataset the API returns for a stored record.                         *)
DatasetOf(id, rec) ==
    [ID |-> id, IDAlias |-> id, Name |-> rec.name, Description |-> rec.description,
     ProducerID |-> rec.producer_id, Category |-> rec.category,
     DataFreshness |-> rec.data_freshness, S3Key |-> S3KeyOf(rec.name),
     S3BucketName |-> "", S3Bucket |-> "", Metadata |-> rec.metadata]

NoDataset ==
    [ID |-> <<>>, IDAlias |-> "", Name |-> "", Description |-> "", ProducerID |-> "",
     Category |-> "", DataFreshness |-> "", S3Key |-> <<>>,
     S3BucketName |-> "", S3Bucket |-> "", Metadata |-> EmptyMap]

(* UploadDataset, the Dataset it builds itself when the record cannot be    *)
(* fetched after the upload.                                               *)
MinimalDataset(p, opts, createResp) ==
    [NoDataset EXCEPT !.ID = createResp.ID, !.IDAlias = createResp.ID,
                      !.Name = opts.DatasetName, !.Description = opts.Description,
                      !.ProducerID = p.CustomerID, !.Category = opts.Category,
                      !.S3Key = createResp.S3Key,
                      !.S3BucketName = p.BucketName, !.S3Bucket = p.BucketName]

(***************************************************************************)
(* Requests made with the caller's context.  Once the context is done a    *)
(* request made with it is not sent and returns the context's error:       *)
(* status 0 for an HTTP request, an error for a call of the key service.   *)
(***************************************************************************)
HttpOutcomes(statuses, done) == IF done THEN {0} ELSE statuses

ApiOutcomes(done) == IF done THEN {FALSE} ELSE BOOLEAN

WithContext(outcomes, done) ==
    IF done THEN {[err |-> "context canceled", CiphertextBlob |-> <<>>]} ELSE outcomes

CreateOutcomes(cat, next, payload, done) ==
    IF done THEN {[status |-> 0, id |-> <<>>]}
    ELSE CatalogCreateOutcomes(cat, next, payload)

NoCreate == [ID |-> <<>>, UploadURL |-> <<>>, S3Key |-> <<>>]

NoProcessed == ProcessFailed("nil", <<>>)

UploadResult(dataset, err) == [dataset |-> dataset, err |-> err]

NoResult == UploadResult(NoDataset, "pending")

(***************************************************************************)
(* State of the transfer: one producer, one consumer, the source file,     *)
(* the catalog, the object store and the key service.                      *)
(***************************************************************************)
VARIABLES producer, file, catalog, nextId, bucket, kmsStore, calls,
          upPc, upArgs, upOpts, upCreate, upData, upTrace, upResult,
          dlPc, dlId, dlUrl, dlFlags, dlBody, dlLen, dlTrace, dlOut, dlErr, dlCount,
          env, envStore, clock, derived, tampered, cancelled,
          an, em, nq, pl,
          ud, cu, cr

upVars == <<upPc, upArgs, upOpts, upCreate, upData, upTrace, upResult>>

dlVars == <<dlPc, dlId, dlUrl, dlFlags, dlBody, dlLen, dlTrace, dlOut, dlErr, dlCount>>

worldVars == <<producer, file, catalog, nextId, bucket, kmsStore, calls>>

envVars == <<env, envStore>>

idVars == <<clock, derived>>

anVars == <<an>>

emVars == <<em>>

nqVars == <<nq>>

plVars == <<pl>>

udVars == <<ud>>

cuVars == <<cu>>

crVars == <<cr>>

extVars == <<udVars, cuVars, crVars>>

auxVars == <<anVars, emVars, nqVars, plVars, extVars>>

ctxVars == <<cancelled>>

transferVars == <<worldVars, upVars, dlVars, tampered, ctxVars>>

vars == <<transferVars, envVars, idVars, auxVars>>

KMSKeyIDs == {"", "alias/helix-customer"}

TransferWrappedLens == {1}

NoFlags == [isEncrypted |-> FALSE, isCompressed |-> FALSE]

NoOutput == [written |-> FALSE, data |-> <<>>]

InitTransfer ==
    /\ producer \in {[CustomerID |-> "company-1", KMSKeyID |-> k, BucketName |-> "helix-bucket"]
                        : k \in KMSKeyIDs}
    /\ file \in Files
    /\ catalog = EmptyMap
    /\ nextId = 1
    /\ bucket = EmptyMap
    /\ kmsStore = EmptyMap
    /\ calls = <<>>
    /\ upPc = "idle"
    /\ upArgs = NewUploadOptions("sales")
    /\ upOpts = NewUploadOptions("sales")
    /\ upCreate = NoCreate
    /\ upData = NoProcessed
    /\ upTrace = <<>>
    /\ upResult = NoResult
    /\ dlPc = "idle"
    /\ dlId = <<>>
    /\ dlUrl = <<>>
    /\ dlFlags = NoFlags
    /\ dlBody = <<>>
    /\ dlLen = 0
    /\ dlTrace = <<>>
    /\ dlOut = NoOutput
    /\ dlErr = "pending"
    /\ dlCount = 0
    /\ tampered = FALSE
    /\ cancelled = FALSE

(* UploadDataset: defaults and validation, before any step of the flow.     *)
UploadDataset(opts) ==
    /\ upPc = "idle"
    /\ dlPc = "idle"
    /\ Len(calls) < MaxCalls
    /\ LET v == ValidateUpload(producer.KMSKeyID, ApplyDefaults(opts))
       IN  /\ upArgs' = opts
           /\ upOpts' = v.opts
           /\ upTrace' = <<>>
           /\ upCreate' = NoCreate
           /\ upData' = NoProcessed
           /\ IF v.err # "nil"
              THEN upPc' = "done" /\ upResult' = UploadResult(NoDataset, v.err)
              ELSE upPc' = "create" /\ upResult' = NoResult
    /\ UNCHANGED <<worldVars, dlVars>>
    /\ UNCHANGED <<envVars, idVars, auxVars, tampered, ctxVars>>

(* A variant of createDatasetRecord's step that goes on to process and put  *)
(* the file whatever the API answered.                                      *)
CreateDatasetRecordIgnoringFailure ==
    /\ upPc = "create"
    /\ LET payload == createDatasetPayload(producer.CustomerID, upOpts, file)
           opened  == Ev("analyze", <<>>, <<>>, analyzeData(file).err)
       IN  \E out \in CreateOutcomes(catalog, nextId, payload, cancelled) :
             /\ upTrace' = upTrace \o <<opened, Ev("POST", <<>>, <<>>, out.status)>>
             /\ upCreate' = [ID |-> out.id,
                             UploadURL |-> S3KeyOf(payload.name),
                             S3Key |-> S3KeyOf(payload.name)]
             /\ upPc' = "process"
             /\ UNCHANGED upResult
             /\ IF out.status = 201
                THEN /\ catalog' = CatalogPut(catalog, out.id, payload)
                     /\ nextId' = nextId + 1
                ELSE UNCHANGED <<catalog, nextId>>
    /\ UNCHANGED <<producer, file, bucket, kmsStore, calls, upArgs, upOpts, upData, dlVars>>
    /\ UNCHANGED <<envVars, idVars, auxVars, tampered, ctxVars>>

(* Step 1: createDatasetRecord.                                            *)
CreateDatasetRecord ==
    /\ upPc = "create"
    /\ LET payload == createDatasetPayload(producer.CustomerID, upOpts, file)
           opened  == Ev("analyze", <<>>, <<>>, analyzeData(file).err)
       IN  \E out \in CreateOutcomes(catalog, nextId, payload, cancelled) :
             /\ upTrace' = upTrace \o <<opened, Ev("POST", <<>>, <<>>, out.status)>>
             /\ IF out.status = 201
                THEN /\ catalog' = CatalogPut(catalog, out.id, payload)
                     /\ nextId' = nextId + 1
                     /\ upCreate' = [ID |-> out.id,
                                     UploadURL |-> S3KeyOf(payload.name),
                                     S3Key |-> S3KeyOf(payload.name)]
                     /\ upPc' = "process"
                     /\ UNCHANGED upResult
                ELSE /\ upPc' = "done"
                     /\ upResult' = UploadResult(NoDataset, "failed to create dataset record")
                     /\ UNCHANGED <<catalog, nextId, upCreate>>
    /\ UNCHANGED <<producer, file, bucket, kmsStore, calls, upArgs, upOpts, upData, dlVars>>
    /\ UNCHANGED <<envVars, idVars, auxVars, tampered, ctxVars>>

(* Step 2: processFile.                                                    *)
ProcessFile ==
    /\ upPc = "process"
    /\ \E dataKey \in RandBytes(KeySize), iv \in RandBytes(IvSize) :
       \E kmsOut \in WithContext(KmsEncryptOutcomes(dataKey, TransferWrappedLens),
                                  cancelled) :
         LET r == processFile(producer.KMSKeyID, upOpts, file, dataKey, iv, kmsOut)
         IN  /\ upTrace' = upTrace \o r.events
             /\ kmsStore' = IF HasOp(r.events, "encrypt") /\ kmsOut.err = "nil"
                            THEN KmsIssue(kmsStore, kmsOut.CiphertextBlob, dataKey)
                            ELSE kmsStore
             /\ IF r.err # "nil"
                THEN /\ upPc' = "done"
                     /\ upResult' = UploadResult(NoDataset, r.err)
                     /\ UNCHANGED upData
                ELSE /\ upPc' = "put"
                     /\ upData' = r
                     /\ UNCHANGED upResult
    /\ UNCHANGED <<producer, file, catalog, nextId, bucket, calls, upArgs, upOpts, upCreate,
                   dlVars>>
    /\ UNCHANGED <<envVars, idVars, auxVars, tampered, ctxVars>>

(* A variant of step 3 that sends the PUT again after a failure.            *)
UploadToPresignedURLRetrying ==
    /\ upPc = "put"
    /\ \E status \in HttpOutcomes({200, 403}, cancelled) :
         /\ upTrace' = Append(upTrace, Ev("PUT", upData.Data, <<>>, status))
         /\ IF status = 200
            THEN /\ bucket' = BucketPut(bucket, upCreate.UploadURL, upData.Data)
                 /\ upPc' = "fetch"
            ELSE /\ upPc' = "put"
                 /\ UNCHANGED bucket
         /\ UNCHANGED upResult
    /\ UNCHANGED <<producer, file, catalog, nextId, kmsStore, calls, upArgs, upOpts, upCreate,
                   upData, dlVars>>
    /\ UNCHANGED <<envVars, idVars, auxVars, tampered, ctxVars>>

(* Step 3: uploadToPresignedURL.                                           *)
UploadToPresignedURL ==
    /\ upPc = "put"
    /\ \E status \in HttpOutcomes({200, 403}, cancelled) :
         /\ upTrace' = Append(upTrace, Ev("PUT", upData.Data, <<>>, status))
         /\ IF status = 200
            THEN /\ bucket' = BucketPut(bucket, upCreate.UploadURL, upData.Data)
                 /\ upPc' = "fetch"
                 /\ UNCHANGED upResult
            ELSE /\ upPc' = "done"
                 /\ upResult' = UploadResult(NoDataset,
                                             "dataset record created but upload failed")
                 /\ UNCHANGED bucket
    /\ UNCHANGED <<producer, file, catalog, nextId, kmsStore, calls, upArgs, upOpts, upCreate,
                   upData, dlVars>>
    /\ UNCHANGED <<envVars, idVars, auxVars, tampered, ctxVars>>

(* Step 4: fetch the record; on failure return a basic Dataset, nil error.  *)
FetchDataset ==
    /\ upPc = "fetch"
    /\ \E status \in HttpOutcomes({200, 500}, cancelled) :
         /\ upTrace' = Append(upTrace, Ev("GET", <<>>, <<>>, status))
         /\ upResult' = IF status = 200
                        THEN UploadResult(DatasetOf(upCreate.ID, catalog[upCreate.ID]), "nil")
                        ELSE UploadResult(MinimalDataset(producer, upOpts, upCreate), "nil")
    /\ upPc' = "done"
    /\ UNCHANGED <<worldVars, upArgs, upOpts, upCreate, upData, dlVars>>
    /\ UNCHANGED <<envVars, idVars, auxVars, tampered, ctxVars>>

(* The call returns to its caller, which keeps what it was given.           *)
UploadReturn ==
    /\ upPc = "done"
    /\ calls' = Append(calls, [name |-> upArgs.DatasetName, err |-> upResult.err,
                               id |-> upResult.dataset.ID])
    /\ upPc' = "idle"
    /\ upArgs' = NewUploadOptions("sales")
    /\ upOpts' = NewUploadOptions("sales")
    /\ upCreate' = NoCreate
    /\ upData' = NoProcessed
    /\ upTrace' = <<>>
    /\ upResult' = NoResult
    /\ cancelled' = FALSE
    /\ UNCHANGED <<producer, file, catalog, nextId, bucket, kmsStore, dlVars>>
    /\ UNCHANGED <<envVars, idVars, auxVars, tampered>>

(***************************************************************************)
(* Consumer.DownloadDataset.                                               *)
(***************************************************************************)
DownloadDone(err) ==
    /\ dlPc' = "done"
    /\ dlErr' = err

(* The bool type assertions on the two metadata entries, defaulting to      *)
(* false.                                                                  *)
ExtractFlags(metadata) ==
    [isEncrypted  |-> IF "encryption_enabled" \in DOMAIN metadata
                      THEN metadata.encryption_enabled ELSE FALSE,
     isCompressed |-> IF "compression_enabled" \in DOMAIN metadata
                      THEN metadata.compression_enabled ELSE FALSE]

(* GetDownloadURL.                                                         *)
DownloadDataset(datasetID) ==
    /\ dlPc = "idle"
    /\ upPc = "idle"
    /\ dlCount < MaxDownloads
    /\ dlId' = datasetID
    /\ dlCount' = dlCount + 1
    /\ \E ok \in ApiOutcomes(cancelled) :
         IF ok /\ datasetID \in DOMAIN catalog
         THEN /\ dlUrl' = S3KeyOf(catalog[datasetID].name)
              /\ dlPc' = "meta"
              /\ UNCHANGED dlErr
         ELSE /\ DownloadDone("failed to get download URL")
              /\ UNCHANGED dlUrl
    /\ UNCHANGED <<worldVars, upVars, dlFlags, dlBody, dlLen, dlTrace, dlOut>>
    /\ UNCHANGED <<envVars, idVars, auxVars, tampered, ctxVars>>

(* GetDataset and the extraction of the two settings.                       *)
DlGetDataset ==
    /\ dlPc = "meta"
    /\ \E ok \in ApiOutcomes(cancelled) :
         IF ok
         THEN /\ dlFlags' = ExtractFlags(DatasetOf(dlId, catalog[dlId]).Metadata)
              /\ dlPc' = "get"
              /\ UNCHANGED dlErr
         ELSE /\ DownloadDone("failed to get dataset metadata")
              /\ UNCHANGED dlFlags
    /\ UNCHANGED <<worldVars, upVars, dlId, dlUrl, dlBody, dlLen, dlTrace, dlOut, dlCount>>
    /\ UNCHANGED <<envVars, idVars, auxVars, tampered, ctxVars>>

(* The declared sizes a response can carry: unknown, at the threshold, or   *)
(* above it.  The model keeps the content short and carries the declared    *)
(* size beside it.                                                         *)
ContentLengths == {-1, largeFileThreshold, largeFileThreshold + 1}

(* http.Get on the download URL and the status check.                       *)
DlHttpGet ==
    /\ dlPc = "get"
    /\ \E status \in {0, 200, 403} :
         IF status = 0
         THEN DownloadDone("failed to download") /\ UNCHANGED <<dlBody, dlLen>>
         ELSE IF status # 200 \/ dlUrl \notin DOMAIN bucket
         THEN DownloadDone("download failed with status") /\ UNCHANGED <<dlBody, dlLen>>
         ELSE /\ dlBody' = bucket[dlUrl]
              /\ dlLen' \in ContentLengths
              /\ dlPc' = "process"
              /\ UNCHANGED dlErr
    /\ UNCHANGED <<worldVars, upVars, dlId, dlUrl, dlFlags, dlTrace, dlOut, dlCount>>
    /\ UNCHANGED <<envVars, idVars, auxVars, tampered, ctxVars>>

(* The local failures of one download: none, or the failure of one of its  *)
(* file operations.                                                        *)
IoOutcomes(staged) ==
    IF staged THEN {"none", "createTemp", "copy", "read", "write"}
    ELSE {"none", "read", "write"}

WriteFile(r, io) ==
    IF r.err = "nil" /\ io = "write" THEN DownloadFailed("failed to write file", r.events)
    ELSE r

(* A variant of the large-file branch that writes the temporary file's     *)
(* bytes as they are.                                                      *)
downloadStagedUnprocessed(body, isEncrypted, isCompressed, store, kmsUp, io) ==
    IF io = "createTemp" THEN DownloadFailed("failed to create temp file", <<>>)
    ELSE IF io = "copy" THEN DownloadFailed("failed to stream to temp file", <<>>)
    ELSE IF io = "read" THEN DownloadFailed("failed to read temp file", <<>>)
    ELSE WriteFile([err |-> "nil", data |-> body, events |-> <<>>], io)

(* DownloadDataset, contentLength > largeFileThreshold: os.CreateTemp,     *)
(* io.Copy, os.ReadFile, decrypt, decompress, os.WriteFile.                *)
downloadStaged(body, isEncrypted, isCompressed, store, kmsUp, io) ==
    IF io = "createTemp" THEN DownloadFailed("failed to create temp file", <<>>)
    ELSE IF io = "copy" THEN DownloadFailed("failed to stream to temp file", <<>>)
    ELSE IF io = "read" THEN DownloadFailed("failed to read temp file", <<>>)
    ELSE WriteFile(processDownloaded(body, isEncrypted, isCompressed, store, kmsUp), io)

(* DownloadDataset, the smaller files: io.ReadAll, decrypt, decompress,    *)
(* os.WriteFile.                                                           *)
downloadInMemory(body, isEncrypted, isCompressed, store, kmsUp, io) ==
    IF io = "read" THEN DownloadFailed("failed to read response", <<>>)
    ELSE WriteFile(processDownloaded(body, isEncrypted, isCompressed, store, kmsUp), io)

(* Read the body (through a temporary file when the declared size is over   *)
(* the threshold), decrypt, decompress, write the output file.              *)
DlProcess ==
    /\ dlPc = "process"
    /\ LET staged == dlLen > largeFileThreshold
       IN  \E kmsUp \in ApiOutcomes(cancelled), io \in IoOutcomes(staged) :
             \E r \in {IF staged
                        THEN downloadStaged(dlBody, dlFlags.isEncrypted,
                                            dlFlags.isCompressed, kmsStore, kmsUp, io)
                        ELSE downloadInMemory(dlBody, dlFlags.isEncrypted,
                                              dlFlags.isCompressed, kmsStore, kmsUp, io)} :
             LET how == Ev(IF staged THEN "staged" ELSE "memory",
                           [kmsUp |-> kmsUp, io |-> io], dlBody, "ok")
             IN  /\ dlTrace' = <<how>> \o r.events
                 /\ IF r.err # "nil"
                    THEN DownloadDone(r.err) /\ UNCHANGED dlOut
                    ELSE /\ dlOut' = [written |-> TRUE, data |-> r.data]
                         /\ DownloadDone("nil")
    /\ UNCHANGED <<worldVars, upVars, dlId, dlUrl, dlFlags, dlBody, dlLen, dlCount>>
    /\ UNCHANGED <<envVars, idVars, auxVars, tampered, ctxVars>>

DownloadReturn ==
    /\ dlPc = "done"
    /\ dlPc' = "idle"
    /\ dlId' = <<>>
    /\ dlUrl' = <<>>
    /\ dlFlags' = NoFlags
    /\ dlBody' = <<>>
    /\ dlLen' = 0
    /\ dlTrace' = <<>>
    /\ dlOut' = NoOutput
    /\ dlErr' = "pending"
    /\ cancelled' = FALSE
    /\ UNCHANGED <<worldVars, upVars, dlCount>>
    /\ UNCHANGED <<envVars, idVars, auxVars, tampered>>

TamperDeltas == {1, 128}

(* One byte b at position i of a byte string becomes (b + d) % 256.          *)
FlipByte(bytes, i, d) == [bytes EXCEPT ![i] = (@ + d) % 256]

(* One byte of a stored object changes between the upload and the          *)
(* download.                                                               *)
TamperObject ==
    /\ upPc = "idle"
    /\ dlPc = "idle"
    /\ dlCount = 0
    /\ ~tampered
    /\ \E key \in DOMAIN bucket :
       \E i \in 1..Len(bucket[key]), d \in TamperDeltas :
         bucket' = BucketPut(bucket, key, FlipByte(bucket[key], i, d))
    /\ tampered' = TRUE
    /\ UNCHANGED <<producer, file, catalog, nextId, kmsStore, calls, upVars, dlVars,
                   envVars, idVars, auxVars, ctxVars>>

(* The caller cancels the context it passed, or passes one that is already *)
(* done.                                                                   *)
Cancel ==
    /\ ~cancelled
    /\ upPc # "done"
    /\ dlPc # "done"
    /\ cancelled' = TRUE
    /\ UNCHANGED <<worldVars, upVars, dlVars, tampered, envVars, idVars, auxVars>>

(***************************************************************************)
(* The envelope cipher on its own: encryptData on bounded plaintexts, then *)
(* decryptData on what it produced.                                        *)
(***************************************************************************)
PlainBytes == {0, 255}

EnvWrappedLens == {0, 1, 258}

NoEnvelope ==
    [pc |-> "off", KMSKeyID |-> "", plaintext |-> <<>>, dataKey |-> <<>>, iv |-> <<>>,
     kmsOut |-> [err |-> "nil", CiphertextBlob |-> <<>>],
     out |-> [err |-> "pending", data |-> <<>>],
     wire |-> <<>>, damage |-> "none", kmsUp |-> FALSE,
     dec |-> DecryptFailed("pending", "none", NoParsed)]

EnvEncrypt ==
    /\ env.pc = "ready"
    /\ \E dataKey \in RandBytes(KeySize), iv \in RandBytes(IvSize) :
       \E kmsOut \in KmsEncryptOutcomes(dataKey, EnvWrappedLens) :
         LET out == encryptData(env.KMSKeyID, env.plaintext, dataKey, iv, kmsOut)
         IN  /\ env' = [env EXCEPT !.pc = "encrypted", !.dataKey = dataKey, !.iv = iv,
                                   !.kmsOut = kmsOut, !.out = out, !.wire = out.data]
             /\ envStore' = IF env.KMSKeyID # "" /\ kmsOut.err = "nil"
                            THEN KmsIssue(envStore, kmsOut.CiphertextBlob, dataKey)
                            ELSE envStore
    /\ UNCHANGED <<transferVars, idVars, auxVars>>

EnvDecrypt ==
    /\ env.pc = "encrypted"
    /\ env.out.err = "nil"
    /\ \E kmsUp \in BOOLEAN :
         env' = [env EXCEPT !.pc = "decrypted", !.kmsUp = kmsUp,
                            !.dec = decryptData(env.wire, envStore, kmsUp)]
    /\ UNCHANGED <<transferVars, envStore, idVars, auxVars>>

(* The container loses its tail before it reaches the consumer.             *)
EnvTruncate ==
    /\ env.pc = "encrypted"
    /\ env.out.err = "nil"
    /\ env.damage = "none"
    /\ \E k \in 0..(Len(env.wire) - 1) :
         env' = [env EXCEPT !.wire = Take(env.wire, k), !.damage = "truncated"]
    /\ UNCHANGED <<transferVars, envStore, idVars, auxVars>>

(* One byte of the container changes before it reaches the consumer.        *)
EnvTamper ==
    /\ env.pc = "encrypted"
    /\ env.out.err = "nil"
    /\ env.damage = "none"
    /\ \E i \in 1..Len(env.wire), d \in TamperDeltas :
         env' = [env EXCEPT !.wire = FlipByte(env.wire, i, d), !.damage = "tampered"]
    /\ UNCHANGED <<transferVars, envStore, idVars, auxVars>>

(***************************************************************************)
(* Dataset identifiers.  Strings are sequences of characters.              *)
(***************************************************************************)
MaxNameLen == 2
MaxDerive == 2

NameChars == {"A", " ", "-"}

ToLower(c) == IF c = "A" THEN "a" ELSE c

SlugChar(c) == c \in {"a", "-"}

(* slugRegex.ReplaceAllString(slug, "-"): every maximal run of characters   *)
(* outside [a-z0-9-] becomes one "-".                                       *)
RECURSIVE ReplaceRuns(_, _)
ReplaceRuns(s, inRun) ==
    IF s = <<>> THEN <<>>
    ELSE IF SlugChar(Head(s)) THEN <<Head(s)>> \o ReplaceRuns(Tail(s), FALSE)
    ELSE IF inRun THEN ReplaceRuns(Tail(s), TRUE)
    ELSE <<"-">> \o ReplaceRuns(Tail(s), TRUE)

RECURSIVE TrimLeft(_)
TrimLeft(s) == IF s # <<>> /\ Head(s) = "-" THEN TrimLeft(Tail(s)) ELSE s

RECURSIVE TrimRight(_)
TrimRight(s) ==
    IF s # <<>> /\ s[Len(s)] = "-" THEN TrimRight(SubSeq(s, 1, Len(s) - 1)) ELSE s

slugify(name) ==
    LET lower == [i \in 1..Len(name) |-> ToLower(name[i])]
        slug  == TrimRight(TrimLeft(ReplaceRuns(lower, FALSE)))
    IN  IF slug = <<>> THEN <<"d", "a", "t", "a", "s", "e", "t">> ELSE slug

Digit(n) == CASE n = 0 -> "0" [] n = 1 -> "1" [] n = 2 -> "2" [] n = 3 -> "3"
              [] n = 4 -> "4" [] n = 5 -> "5" [] n = 6 -> "6" [] n = 7 -> "7"
              [] n = 8 -> "8" [] n = 9 -> "9"

(* time.Now().UTC().Format("20060102150405"), the clock counting seconds    *)
(* from 2026-01-01 00:00:00.                                                *)
FormatTimestamp(now) ==
    <<"2", "0", "2", "6", "0", "1", "0", "1", "0", "0",
      Digit((now \div 600) % 6), Digit((now \div 60) % 10),
      Digit((now \div 10) % 6), Digit(now % 10)>>

NilString == [isNil |-> TRUE, val |-> <<>>]

StringPtr(s) == [isNil |-> FALSE, val |-> s]

CustomerIDChars == <<"c", "1">>

generateDatasetID(CustomerID, name, explicitID, now) ==
    IF ~explicitID.isNil /\ explicitID.val # <<>>
    THEN explicitID.val
    ELSE LET timestamp == FormatTimestamp(now)
         IN  CustomerID \o <<"-">> \o slugify(name) \o <<"-">> \o timestamp

ExplicitIDs == {NilString, StringPtr(<<>>), StringPtr(<<"x">>)}

Tick ==
    /\ clock < MaxClock
    /\ clock' = clock + 1
    /\ UNCHANGED <<derived, transferVars, envVars, auxVars>>

GenerateDatasetID(name, explicitID) ==
    /\ Len(derived) < MaxDerive
    /\ derived' = Append(derived,
                         [name |-> name, explicitID |-> explicitID, at |-> clock,
                          id |-> generateDatasetID(CustomerIDChars, name, explicitID, clock)])
    /\ UNCHANGED <<clock, transferVars, envVars, auxVars>>

(***************************************************************************)
(* float64 arithmetic as the analyzer uses it.  A float64 is m * 2^e with  *)
(* m a natural number below 2^MantBits, kept as a sequence of limbs of     *)
(* LimbBits bits, most significant first; zero is the empty sequence.      *)
(* Every operation returns the exact result rounded to MantBits bits, to   *)
(* nearest and ties to even, as IEEE 754 binary64 does.                    *)
(***************************************************************************)
MantBits == 53
LimbBits == 15
LimbBase == 32768

FloatZero == [m |-> <<>>, e |-> 0]

RECURSIVE Pow2(_)
Pow2(n) == IF n = 0 THEN 1 ELSE 2 * Pow2(n - 1)

RECURSIVE BitLen(_)
BitLen(n) == IF n = 0 THEN 0 ELSE 1 + BitLen(n \div 2)

RECURSIVE IntLimbs(_)
IntLimbs(n) == IF n = 0 THEN <<>> ELSE Append(IntLimbs(n \div LimbBase), n % LimbBase)

RECURSIVE BigValue(_)
BigValue(x) ==
    IF x = <<>> THEN 0 ELSE BigValue(SubSeq(x, 1, Len(x) - 1)) * LimbBase + x[Len(x)]

RECURSIVE StripLimbs(_)
StripLimbs(x) == IF x # <<>> /\ Head(x) = 0 THEN StripLimbs(Tail(x)) ELSE x

BigBitLen(x) ==
    LET s == StripLimbs(x)
    IN  IF s = <<>> THEN 0 ELSE (Len(s) - 1) * LimbBits + BitLen(s[1])

BigIsOdd(x) == x # <<>> /\ x[Len(x)] % 2 = 1

(* floor(x / 2^d) *)
BigShiftRight(x, d) ==
    LET q    == d \div LimbBits
        r    == d % LimbBits
        kept == IF q >= Len(x) THEN <<>> ELSE SubSeq(x, 1, Len(x) - q)
    IN  [i \in 1..Len(kept) |->
            (kept[i] \div Pow2(r))
            + (IF i > 1 THEN (kept[i - 1] % Pow2(r)) * Pow2(LimbBits - r) ELSE 0)]

(* x mod 2^d # 0 *)
BigLowNonZero(x, d) ==
    LET q == d \div LimbBits
        r == d % LimbBits
    IN  \/ \E i \in 1..Len(x) : i > Len(x) - q /\ x[i] # 0
        \/ q < Len(x) /\ x[Len(x) - q] % Pow2(r) # 0

(* x * 2^d *)
BigShiftLeft(x, d) ==
    LET q == d \div LimbBits
        r == d % LimbBits
        p == <<0>> \o x
    IN  [i \in 1..Len(p) |->
            ((p[i] * Pow2(r)) % LimbBase)
            + (IF i < Len(p) THEN p[i + 1] \div Pow2(LimbBits - r) ELSE 0)]
        \o Zeros(q)

RECURSIVE BigMulSmall(_, _, _)
BigMulSmall(x, k, carry) ==
    IF x = <<>> THEN IntLimbs(carry)
    ELSE LET v == x[Len(x)] * k + carry
         IN  Append(BigMulSmall(SubSeq(x, 1, Len(x) - 1), k, v \div LimbBase), v % LimbBase)

RECURSIVE BigAdd(_, _, _)
BigAdd(a, b, carry) ==
    IF a = <<>> /\ b = <<>> THEN IntLimbs(carry)
    ELSE LET x == IF a = <<>> THEN 0 ELSE a[Len(a)]
             y == IF b = <<>> THEN 0 ELSE b[Len(b)]
             v == x + y + carry
         IN  Append(BigAdd(SubSeq(a, 1, Len(a) - 1), SubSeq(b, 1, Len(b) - 1),
                           v \div LimbBase),
                    v % LimbBase)

(* x divided by an int 0 < b < LimbBase: quotient and remainder *)
RECURSIVE BigDivSmall(_, _)
BigDivSmall(x, b) ==
    IF x = <<>> THEN [q |-> <<>>, rem |-> 0]
    ELSE LET front == BigDivSmall(SubSeq(x, 1, Len(x) - 1), b)
             cur   == front.rem * LimbBase + x[Len(x)]
         IN  [q |-> Append(front.q, cur \div b), rem |-> cur % b]

(* The value x * 2^e, plus something below the last bit of x when sticky   *)
(* (then x has more than MantBits bits), rounded to MantBits bits.         *)
RoundFloat(x, e, sticky) ==
    LET n == BigBitLen(x)
    IN  IF n <= MantBits THEN [m |-> StripLimbs(x), e |-> e]
        ELSE LET d         == n - MantBits
                 keep      == BigShiftRight(x, d)
                 withGuard == BigShiftRight(x, d - 1)
                 low       == sticky \/ BigLowNonZero(x, d - 1)
                 up        == BigIsOdd(withGuard) /\ (low \/ BigIsOdd(keep))
                 k2        == IF up THEN BigAdd(keep, <<>>, 1) ELSE keep
             IN  IF BigBitLen(k2) > MantBits
                 THEN [m |-> BigShiftRight(k2, 1), e |-> e + d + 1]
                 ELSE [m |-> StripLimbs(k2), e |-> e + d]

(* float64(n) for an int n >= 0 *)
FloatOfInt(n) == RoundFloat(IntLimbs(n), 0, FALSE)

(* a / b for float64 a and b that hold whole numbers, 0 < b < LimbBase:     *)
(* a.m * 2^75 / b has more than MantBits bits, what is left of the          *)
(* division is the sticky part                                              *)
FloatDiv(a, b) ==
    IF a.m = <<>> THEN FloatZero
    ELSE LET den == BigValue(BigShiftLeft(b.m, b.e))
             div == BigDivSmall(a.m \o Zeros(5), den)
         IN  RoundFloat(div.q, a.e - 5 * LimbBits, div.rem # 0)

(* f * k for a float64 f and a constant 0 < k < LimbBase *)
FloatMulInt(f, k) == RoundFloat(BigMulSmall(f.m, k, 0), f.e, FALSE)

FloatHalf == [m |-> <<1>>, e |-> 0 - 1]

FloatAdd(x, y) ==
    LET e == IF x.e < y.e THEN x.e ELSE y.e
    IN  RoundFloat(BigAdd(BigShiftLeft(x.m, x.e - e), BigShiftLeft(y.m, y.e - e), 0),
                   e, FALSE)

(* int(f): the fraction is discarded *)
FloatTrunc(f) ==
    IF f.e >= 0 THEN BigValue(BigShiftLeft(f.m, f.e))
    ELSE BigValue(BigShiftRight(f.m, 0 - f.e))

(* roundTo2Decimals: float64(int(f*100 + 0.5)) / 100.  The result is a     *)
(* whole number of hundredths k divided by 100, the float64 nearest to the *)
(* decimal k/100; the model returns k.                                     *)
roundTo2Decimals(f) == FloatTrunc(FloatAdd(FloatMulInt(f, 100), FloatHalf))

(* The percentage analyzeData reports for a field present in `present` of  *)
(* recordCount records, in hundredths.                                     *)
emptinessOf(recordCount, present) ==
    LET missingOrEmpty == recordCount - present
        percentage == IF recordCount > 0
                      THEN FloatMulInt(FloatDiv(FloatOfInt(missingOrEmpty),
                                                FloatOfInt(recordCount)), 100)
                      ELSE FloatZero
    IN  roundTo2Decimals(percentage)

(* (recordCount - presentCount) / recordCount * 100 rounded half-up to two  *)
(* decimals, in hundredths, computed exactly.                               *)
HalfUpHundredths(recordCount, present) ==
    ((recordCount - present) * 20000 + recordCount) \div (2 * recordCount)

(***************************************************************************)
(* The analyzer on parsed lines.  A JSON value is a record tagged with its *)
(* kind, as encoding/json decodes it into `any`.                           *)
(***************************************************************************)
MaxLines == 3
MaxRecords == 160

JNull == [t |-> "null"]
JNumber == [t |-> "number"]
JString(s) == [t |-> "string", s |-> s]
JArray(a) == [t |-> "array", a |-> a]
JObject(o) == [t |-> "object", o |-> o]

(* A line of the file after strings.TrimSpace: blank, the text of a JSON   *)
(* value, text that is not JSON, or a line longer than the scanner's       *)
(* buffer.                                                                 *)
BlankLine == [kind |-> "blank"]
MalformedLine == [kind |-> "malformed"]
TooLongLine == [kind |-> "tooLong"]
JsonLine(v) == [kind |-> "json", v |-> v]

(* json.Unmarshal([]byte(line), &record) with record a map[string]any:     *)
(* text that is not JSON is a syntax error, a JSON object fills the map,   *)
(* JSON null leaves the map nil without an error, every other JSON value   *)
(* is a type error.                                                        *)
jsonUnmarshal(line) ==
    IF line.kind # "json" THEN [err |-> "invalid character", record |-> EmptyMap]
    ELSE IF line.v.t = "object" THEN [err |-> "nil", record |-> line.v.o]
    ELSE IF line.v.t = "null" THEN [err |-> "nil", record |-> EmptyMap]
    ELSE [err |-> "cannot unmarshal", record |-> EmptyMap]

SpaceChars == {" ", "\t"}

RECURSIVE TrimSpaceLeft(_)
TrimSpaceLeft(s) == IF s # <<>> /\ Head(s) \in SpaceChars THEN TrimSpaceLeft(Tail(s)) ELSE s

RECURSIVE TrimSpaceRight(_)
TrimSpaceRight(s) ==
    IF s # <<>> /\ s[Len(s)] \in SpaceChars
    THEN TrimSpaceRight(SubSeq(s, 1, Len(s) - 1))
    ELSE s

(* strings.TrimSpace *)
TrimSpace(s) == TrimSpaceRight(TrimSpaceLeft(s))

isEmptyValue(v) ==
    CASE v.t = "null"   -> TRUE
      [] v.t = "string" -> TrimSpace(v.s) = <<>>
      [] v.t = "array"  -> Len(v.a) = 0
      [] v.t = "object" -> DOMAIN v.o = {}
      [] OTHER          -> FALSE

(* encoding/json decodes into nil, bool, float64, string, []any and        *)
(* map[string]any, so "integer" and "unknown" are never returned.          *)
inferType(v) ==
    CASE v.t = "null"    -> "null"
      [] v.t = "boolean" -> "boolean"
      [] v.t = "number"  -> "number"
      [] v.t = "string"  -> "string"
      [] v.t = "array"   -> "array"
      [] v.t = "object"  -> "object"
      [] OTHER           -> "unknown"

NoFields == [all |-> {}, present |-> {}]

RECURSIVE getFieldStatus(_, _)
getFieldStatus(obj, prefix) ==
    LET fieldPathOf(key) == IF prefix # "" THEN prefix \o "." \o key ELSE key
        nested(key) ==
            LET value     == obj[key]
                fieldPath == fieldPathOf(key)
            IN  IF isEmptyValue(value) THEN NoFields
                ELSE IF value.t = "object" THEN getFieldStatus(value.o, fieldPath)
                ELSE IF value.t = "array" /\ Len(value.a) > 0 /\ value.a[1].t = "object"
                THEN LET items == {i \in 1..Len(value.a) : value.a[i].t = "object"}
                         of(i) == getFieldStatus(value.a[i].o, fieldPath \o "[]")
                     IN  [all     |-> UNION {of(i).all : i \in items},
                          present |-> UNION {of(i).present : i \in items}]
                ELSE NoFields
    IN  [all     |-> {fieldPathOf(key) : key \in DOMAIN obj}
                     \cup UNION {nested(key).all : key \in DOMAIN obj},
         present |-> {fieldPathOf(key) : key \in {k \in DOMAIN obj : ~isEmptyValue(obj[k])}}
                     \cup UNION {nested(key).present : key \in DOMAIN obj}]

(* schemaBuilder: propertySchema values; items is nil until an array with  *)
(* elements is seen.                                                       *)
NilItems == [isNil |-> TRUE, types |-> {}, properties |-> EmptyMap]

NewItems == [isNil |-> FALSE, types |-> {}, properties |-> EmptyMap]

NewPropertySchema == [types |-> {}, properties |-> EmptyMap, items |-> NilItems]

RECURSIVE addProperties(_, _)
RECURSIVE addItems(_, _)

addProperties(obj, props) ==
    [key \in DOMAIN props \cup DOMAIN obj |->
        IF key \notin DOMAIN obj THEN props[key]
        ELSE LET value == obj[key]
                 prop0 == IF key \in DOMAIN props THEN props[key] ELSE NewPropertySchema
                 prop1 == [prop0 EXCEPT !.types = @ \cup {inferType(value)}]
                 prop2 == IF value.t = "object"
                          THEN [prop1 EXCEPT !.properties = addProperties(value.o, @)]
                          ELSE prop1
             IN  IF value.t = "array" /\ Len(value.a) > 0
                 THEN [prop2 EXCEPT !.items =
                          addItems(value.a, IF @.isNil THEN NewItems ELSE @)]
                 ELSE prop2]

addItems(arr, items) ==
    IF arr = <<>> THEN items
    ELSE LET item == Head(arr)
             i1   == [items EXCEPT !.types = @ \cup {inferType(item)}]
             i2   == IF item.t = "object"
                     THEN [i1 EXCEPT !.properties = addProperties(item.o, @)]
                     ELSE i1
         IN  addItems(Tail(arr), i2)

(* sort.Strings on the type names *)
TypeNames == <<"array", "boolean", "integer", "null", "number", "object", "string", "unknown">>

SortedTypes(types) == SelectSeq(TypeNames, LAMBDA t : t \in types)

TypeSchema(types) ==
    LET sorted == SortedTypes(types)
    IN  IF Len(sorted) = 1 THEN ("type" :> sorted[1])
        ELSE IF Len(sorted) > 1 THEN ("type" :> sorted)
        ELSE EmptyMap

RECURSIVE propertiesToSchema(_)
propertiesToSchema(props) ==
    [name \in DOMAIN props |->
        LET prop == props[name]
        IN  TypeSchema(prop.types)
            @@ (IF DOMAIN prop.properties # {}
                THEN ("properties" :> propertiesToSchema(prop.properties))
                ELSE EmptyMap)
            @@ (IF ~prop.items.isNil
                THEN ("items" :>
                        (TypeSchema(prop.items.types)
                         @@ (IF DOMAIN prop.items.properties # {}
                             THEN ("properties" :> propertiesToSchema(prop.items.properties))
                             ELSE EmptyMap)))
                ELSE EmptyMap)]

toSchema(properties) == [type |-> "object", properties |-> propertiesToSchema(properties)]

(* a new map with the entries of m; Go maps have no order *)
sortByValueDesc(m) == [k \in DOMAIN m |-> m[k]]

AnalysisOptionsOf(limit) == [SchemaSampleLimit |-> limit]

DefaultAnalysisOptions == AnalysisOptionsOf(1000)

NewScan ==
    [allFields |-> {}, fieldPresentCount |-> EmptyMap, properties |-> EmptyMap,
     recordCount |-> 0, analysisErrors |-> 0]

(* a turn of the scan loop with the emptiness traversal inside the         *)
(* sampling test                                                           *)
scanLineSampledEmptiness(st, line, opts) ==
    IF line.kind = "blank" THEN st
    ELSE LET u == jsonUnmarshal(line)
         IN  IF u.err # "nil" THEN [st EXCEPT !.analysisErrors = @ + 1]
             ELSE LET recordCount == st.recordCount + 1
                      sampled     == opts.SchemaSampleLimit = 0
                                     \/ recordCount <= opts.SchemaSampleLimit
                      status      == IF sampled THEN getFieldStatus(u.record, "")
                                     ELSE NoFields
                  IN  [allFields   |-> st.allFields \cup status.all,
                       fieldPresentCount |->
                           [f \in DOMAIN st.fieldPresentCount \cup status.present |->
                               (IF f \in DOMAIN st.fieldPresentCount
                                THEN st.fieldPresentCount[f] ELSE 0)
                               + (IF f \in status.present THEN 1 ELSE 0)],
                       properties  |->
                           IF sampled
                           THEN addProperties(u.record, st.properties)
                           ELSE st.properties,
                       recordCount |-> recordCount,
                       analysisErrors |-> st.analysisErrors]

(* one turn of the scan loop of analyzeData *)
scanLine(st, line, opts) ==
    IF line.kind = "blank" THEN st
    ELSE LET u == jsonUnmarshal(line)
         IN  IF u.err # "nil" THEN [st EXCEPT !.analysisErrors = @ + 1]
             ELSE LET recordCount == st.recordCount + 1
                      status      == getFieldStatus(u.record, "")
                  IN  [allFields   |-> st.allFields \cup status.all,
                       fieldPresentCount |->
                           [f \in DOMAIN st.fieldPresentCount \cup status.present |->
                               (IF f \in DOMAIN st.fieldPresentCount
                                THEN st.fieldPresentCount[f] ELSE 0)
                               + (IF f \in status.present THEN 1 ELSE 0)],
                       properties  |->
                           IF opts.SchemaSampleLimit = 0
                              \/ recordCount <= opts.SchemaSampleLimit
                           THEN addProperties(u.record, st.properties)
                           ELSE st.properties,
                       recordCount |-> recordCount,
                       analysisErrors |-> st.analysisErrors]

(* bufio.Scanner: the scan ends at the end of the file or at a line longer *)
(* than the buffer, which scanner.Err reports.                             *)
RECURSIVE scanLines(_, _, _)
scanLines(lines, opts, st) ==
    IF lines = <<>> THEN [st |-> st, err |-> "nil"]
    ELSE IF Head(lines).kind = "tooLong" THEN [st |-> st, err |-> "token too long"]
    ELSE scanLines(Tail(lines), opts, scanLine(st, Head(lines), opts))

AnalysisFailed(err) ==
    [err |-> err, Schema |-> EmptyMap, FieldEmptiness |-> EmptyMap,
     RecordCount |-> 0, AnalysisErrors |-> 0]

(* Producer.analyzeData on a file given as its lines; FieldEmptiness is in *)
(* hundredths of a percent.                                                *)
analyzeLines(f, opts) ==
    IF ~f.exists THEN AnalysisFailed("failed to open file")
    ELSE LET scan == scanLines(f.lines, opts, NewScan)
             st   == scan.st
             fieldEmptiness ==
                 [field \in st.allFields |->
                     emptinessOf(st.recordCount,
                                 IF field \in DOMAIN st.fieldPresentCount
                                 THEN st.fieldPresentCount[field] ELSE 0)]
         IN  IF scan.err # "nil" THEN AnalysisFailed("error reading file")
             ELSE [err |-> "nil",
                   Schema |-> IF st.recordCount > 0 THEN toSchema(st.properties)
                              ELSE EmptyMap,
                   FieldEmptiness |-> sortByValueDesc(fieldEmptiness),
                   RecordCount |-> st.recordCount,
                   AnalysisErrors |-> st.analysisErrors]

(* The records and lines the analyzer is run on.                           *)
AnalyzerRecords ==
    { EmptyMap,
      ("a" :> JNumber),
      ("b" :> JString(<<"x">>)),
      ("a" :> JString(<<" ">>)) @@ ("b" :> JNumber),
      ("a" :> JNull),
      ("a" :> JObject("c" :> JNumber)),
      ("a" :> JArray(<<JObject("c" :> JNumber), JObject("d" :> JNull)>>)),
      ("a" :> JArray(<<JNumber, JObject("c" :> JNumber)>>)) }

AnalyzerLines ==
    {BlankLine, MalformedLine, TooLongLine, JsonLine(JNull), JsonLine(JNumber)}
    \cup {JsonLine(JObject(r)) : r \in AnalyzerRecords}

SampleLimits == {0, 1, 2}

AnalyzerFiles ==
    {[exists |-> FALSE, lines |-> <<>>]}
    \cup {[exists |-> TRUE, lines |-> ls] : ls \in SeqsUpTo(AnalyzerLines, MaxLines)}

NoAnalyzer == [pc |-> "off", file |-> [exists |-> FALSE, lines |-> <<>>],
               opts |-> AnalysisOptionsOf(0), result |-> AnalysisFailed("pending")]

AnalyzeData ==
    /\ an.pc = "ready"
    /\ an' = [an EXCEPT !.pc = "done", !.result = analyzeLines(an.file, an.opts)]
    /\ UNCHANGED <<transferVars, envVars, idVars, emVars, nqVars, plVars, extVars>>

(* The emptiness arithmetic alone: a field present in `present` of         *)
(* recordCount records.                                                    *)
NoEmptiness == [pc |-> "off", recordCount |-> 0, present |-> 0, emptiness |-> 0]

ComputeEmptiness ==
    /\ em.pc = "ready"
    /\ em' = [em EXCEPT !.pc = "done", !.emptiness = emptinessOf(em.recordCount, em.present)]
    /\ UNCHANGED <<transferVars, envVars, idVars, anVars, nqVars, plVars, extVars>>

(***************************************************************************)
(* Notifications: the consumer's queue, PollNotifications and              *)
(* DeleteNotification.                                                     *)
(***************************************************************************)
MaxQueue == 2
MaxPolls == 2
MaxDeletes == 1

NilBool == [isNil |-> TRUE, v |-> FALSE]

BoolPtr(b) == [isNil |-> FALSE, v |-> b]

(* a JSON string whose content is the JSON text of `line` *)
JText(line) == [t |-> "string", s |-> <<>>, text |-> line]

(* PollNotificationsOptions; WaitTimeSeconds only bounds the wait *)
PollOptions ==
    {[MaxMessages |-> mm, AutoAcknowledge |-> a, SubscriptionIDs |-> ids] :
        mm \in {0, 1}, a \in {NilBool, BoolPtr(TRUE), BoolPtr(FALSE)},
        ids \in {<<>>, <<"sub-1">>}}

SqsMaxMessages == 10

(* PollNotifications: the defaults of MaxMessages *)
ApplyPollDefaults(opts) ==
    [opts EXCEPT !.MaxMessages = IF @ = 0 \/ @ > SqsMaxMessages THEN SqsMaxMessages ELSE @]

(* a string field of notificationData read from a JSON object *)
StringField(o, name) ==
    IF name \notin DOMAIN o \/ o[name].t = "null" THEN [err |-> "nil", v |-> ""]
    ELSE IF o[name].t = "string" THEN [err |-> "nil", v |-> o[name].s]
    ELSE [err |-> "cannot unmarshal", v |-> ""]

ZeroNotificationData == [DatasetID |-> "", EventType |-> "", SubscriptionID |-> ""]

(* json.Unmarshal(text, &notificationData): JSON null leaves the struct    *)
(* zero, a JSON object fills the fields it names, anything else fails.     *)
unmarshalNotification(line) ==
    IF line.kind # "json" THEN [err |-> "invalid character", data |-> ZeroNotificationData]
    ELSE IF line.v.t = "null" THEN [err |-> "nil", data |-> ZeroNotificationData]
    ELSE IF line.v.t # "object"
    THEN [err |-> "cannot unmarshal", data |-> ZeroNotificationData]
    ELSE LET d == StringField(line.v.o, "dataset_id")
             e == StringField(line.v.o, "event_type")
             s == StringField(line.v.o, "subscription_id")
         IN  IF d.err # "nil" \/ e.err # "nil" \/ s.err # "nil"
             THEN [err |-> "cannot unmarshal", data |-> ZeroNotificationData]
             ELSE [err |-> "nil",
                   data |-> [DatasetID |-> d.v, EventType |-> e.v, SubscriptionID |-> s.v]]

(* the body of one message: SNS-wrapped, raw, or skipped *)
parseMessageBody(body) ==
    LET parsedBody == jsonUnmarshal(body)
    IN  IF parsedBody.err # "nil"
        THEN [err |-> "failed to parse message body", data |-> ZeroNotificationData]
        ELSE IF "Message" \in DOMAIN parsedBody.record
                /\ parsedBody.record["Message"].t = "string"
        THEN unmarshalNotification(parsedBody.record["Message"].text)
        ELSE IF "event_type" \in DOMAIN parsedBody.record
        THEN unmarshalNotification(body)
        ELSE [err |-> "unknown message format", data |-> ZeroNotificationData]

InSeq(x, s) == \E i \in 1..Len(s) : s[i] = x

ReceiptHandleOf(message) == <<"rh", message.id>>

(* a turn of the loop of PollNotifications that acknowledges only when      *)
(* AutoAcknowledge is set explicitly                                        *)
pollMessageUnsetMeansManual(message, opts, autoAcknowledge, failing) ==
    LET parsed  == parseMessageBody(message.body)
        skipped == \/ parsed.err # "nil"
                   \/ /\ Len(opts.SubscriptionIDs) > 0
                      /\ ~InSeq(parsed.data.SubscriptionID, opts.SubscriptionIDs)
        notification ==
            [DatasetID |-> parsed.data.DatasetID,
             EventType |-> parsed.data.EventType,
             MessageID |-> message.id,
             ReceiptHandle |-> ReceiptHandleOf(message),
             SubscriptionID |-> parsed.data.SubscriptionID]
    IN  IF skipped THEN [notifications |-> <<>>, deletes |-> <<>>]
        ELSE [notifications |-> <<notification>>,
              deletes |-> IF autoAcknowledge /\ ~opts.AutoAcknowledge.isNil
                          THEN <<[by |-> "poll", handle |-> notification.ReceiptHandle,
                                  ok |-> message.id \notin failing]>>
                          ELSE <<>>]

(* one turn of the loop of PollNotifications: the message is skipped, or    *)
(* returned and, when acknowledging, a delete is issued for its handle;     *)
(* failing is the set of message ids whose DeleteMessage request fails      *)
(* A variant of the loop body that acknowledges the messages it skips.     *)
pollMessageDeletingSkipped(message, opts, autoAcknowledge, failing) ==
    LET parsed  == parseMessageBody(message.body)
        skipped == \/ parsed.err # "nil"
                   \/ /\ Len(opts.SubscriptionIDs) > 0
                      /\ ~InSeq(parsed.data.SubscriptionID, opts.SubscriptionIDs)
        notification ==
            [DatasetID |-> parsed.data.DatasetID,
             EventType |-> parsed.data.EventType,
             MessageID |-> message.id,
             ReceiptHandle |-> ReceiptHandleOf(message),
             SubscriptionID |-> parsed.data.SubscriptionID]
        deletes == IF autoAcknowledge
                   THEN <<[by |-> "poll", handle |-> notification.ReceiptHandle,
                           ok |-> message.id \notin failing]>>
                   ELSE <<>>
    IN  [notifications |-> IF skipped THEN <<>> ELSE <<notification>>,
         deletes |-> deletes]

pollMessage(message, opts, autoAcknowledge, failing) ==
    LET parsed  == parseMessageBody(message.body)
        skipped == \/ parsed.err # "nil"
                   \/ /\ Len(opts.SubscriptionIDs) > 0
                      /\ ~InSeq(parsed.data.SubscriptionID, opts.SubscriptionIDs)
        notification ==
            [DatasetID |-> parsed.data.DatasetID,
             EventType |-> parsed.data.EventType,
             MessageID |-> message.id,
             ReceiptHandle |-> ReceiptHandleOf(message),
             SubscriptionID |-> parsed.data.SubscriptionID]
    IN  IF skipped THEN [notifications |-> <<>>, deletes |-> <<>>]
        ELSE [notifications |-> <<notification>>,
              deletes |-> IF autoAcknowledge
                          THEN <<[by |-> "poll", handle |-> notification.ReceiptHandle,
                                  ok |-> message.id \notin failing]>>
                          ELSE <<>>]

RECURSIVE pollLoop(_, _, _, _)
pollLoop(messages, opts, autoAcknowledge, failing) ==
    IF messages = <<>> THEN [notifications |-> <<>>, deletes |-> <<>>]
    ELSE LET this == pollMessage(Head(messages), opts, autoAcknowledge, failing)
             rest == pollLoop(Tail(messages), opts, autoAcknowledge, failing)
         IN  [notifications |-> this.notifications \o rest.notifications,
              deletes |-> this.deletes \o rest.deletes]

(* sqs DeleteMessage requests applied to the queue *)
RECURSIVE ApplyDeletes(_, _)
ApplyDeletes(queue, deletes) ==
    IF deletes = <<>> THEN queue
    ELSE ApplyDeletes(
             IF Head(deletes).ok
             THEN SelectSeq(queue, LAMBDA m : ReceiptHandleOf(m) # Head(deletes).handle)
             ELSE queue,
             Tail(deletes))

(* ListSubscriptions as PollNotifications uses it: an error, no            *)
(* subscription, subscriptions without a queue, or one with the queue      *)
ListSubscriptionsOutcomes == {"error", "none", "legacy", "queue"}

QueueBodies ==
    { MalformedLine,
      JsonLine(JNull),
      JsonLine(JObject("foo" :> JNumber)),
      JsonLine(JObject(("event_type" :> JString("dataset_uploaded"))
                       @@ ("subscription_id" :> JString("sub-1")))),
      JsonLine(JObject(("event_type" :> JString("dataset_uploaded"))
                       @@ ("subscription_id" :> JNumber))),
      JsonLine(JObject("Message" :>
          JText(JsonLine(JObject(("event_type" :> JString("dataset_uploaded"))
                                 @@ ("subscription_id" :> JString("sub-2"))))))),
      JsonLine(JObject("Message" :> JText(MalformedLine))) }

NoPoll == [opts |-> [MaxMessages |-> 0, AutoAcknowledge |-> NilBool, SubscriptionIDs |-> <<>>],
           err |-> "none", notifications |-> <<>>, deletes |-> <<>>]

NoNotify == [on |-> FALSE, queueURL |-> "nil", queue |-> <<>>, polls |-> 0,
             last |-> NoPoll, log |-> <<>>, deleteCalls |-> 0, deleteErr |-> "none"]

Subsequences(s) ==
    {SelectSeq([i \in 1..Len(s) |-> [i |-> i, m |-> s[i]]], LAMBDA x : x.i \in I)
        : I \in SUBSET (1..Len(s))}

(* sqs ReceiveMessage: up to max of the visible messages, in queue order *)
Batches(queue, max) ==
    {[i \in 1..Len(b) |-> b[i].m] :
        b \in {c \in Subsequences(queue) :
                  Len(c) <= max /\ \A i \in 1..Len(c) : c[i].m.visible}}

(* the messages of a batch a delete is issued for *)
Acknowledged(batch, opts, autoAcknowledge) ==
    {batch[i].id : i \in {j \in 1..Len(batch) :
                             pollMessage(batch[j], opts, autoAcknowledge, {}).deletes # <<>>}}

PollFailed(opts, err) == [NoPoll EXCEPT !.opts = opts, !.err = err]

PollNotifications(opts0) ==
    /\ nq.on
    /\ nq.polls < MaxPolls
    /\ LET opts == ApplyPollDefaults(opts0)
           autoAcknowledge == IF opts.AutoAcknowledge.isNil THEN TRUE
                              ELSE opts.AutoAcknowledge.v
       IN  \E subs \in IF nq.queueURL = "nil" THEN ListSubscriptionsOutcomes ELSE {"queue"} :
             LET lookup == nq.queueURL = "nil"
                 urlErr == IF ~lookup THEN "nil"
                           ELSE CASE subs = "error"  -> "failed to get subscriptions"
                                  [] subs = "none"   -> "no active subscriptions found"
                                  [] subs = "legacy" -> "per-consumer queue not provisioned"
                                  [] OTHER           -> "nil"
             IN  IF urlErr # "nil"
                 THEN nq' = [nq EXCEPT !.polls = @ + 1, !.last = PollFailed(opts0, urlErr)]
                 ELSE \/ nq' = [nq EXCEPT !.polls = @ + 1, !.queueURL = "url",
                                          !.last = PollFailed(opts0, "failed to poll SQS queue")]
                      \/ \E batch \in Batches(nq.queue, opts.MaxMessages) :
                         \E failing \in SUBSET Acknowledged(batch, opts, autoAcknowledge) :
                           LET out == pollLoop(batch, opts, autoAcknowledge, failing)
                               received == {batch[i].id : i \in 1..Len(batch)}
                               hidden == [i \in 1..Len(nq.queue) |->
                                            IF nq.queue[i].id \in received
                                            THEN [nq.queue[i] EXCEPT !.visible = FALSE]
                                            ELSE nq.queue[i]]
                           IN  nq' = [nq EXCEPT
                                   !.polls = @ + 1,
                                   !.queueURL = "url",
                                   !.queue = ApplyDeletes(hidden, out.deletes),
                                   !.last = [opts |-> opts0, err |-> "nil",
                                             notifications |-> out.notifications,
                                             deletes |-> out.deletes],
                                   !.log = @ \o out.deletes]
    /\ UNCHANGED <<transferVars, envVars, idVars, anVars, emVars, plVars, extVars>>

(* DeleteNotification called by the application *)
DeleteNotification(receiptHandle) ==
    /\ nq.on
    /\ nq.deleteCalls < MaxDeletes
    /\ IF nq.queueURL = "nil"
       THEN nq' = [nq EXCEPT !.deleteCalls = @ + 1, !.deleteErr = "queue URL not available"]
       ELSE \E ok \in BOOLEAN :
              LET del == <<[by |-> "caller", handle |-> receiptHandle, ok |-> ok]>>
              IN  nq' = [nq EXCEPT !.deleteCalls = @ + 1,
                                   !.deleteErr = IF ok THEN "nil"
                                                 ELSE "failed to delete notification",
                                   !.queue = ApplyDeletes(@, del),
                                   !.log = @ \o del]
    /\ UNCHANGED <<transferVars, envVars, idVars, anVars, emVars, plVars, extVars>>

(* the visibility timeout of a received message runs out *)
VisibilityTimeout ==
    /\ nq.on
    /\ \E i \in 1..Len(nq.queue) :
         /\ ~nq.queue[i].visible
         /\ nq' = [nq EXCEPT !.queue[i].visible = TRUE]
    /\ UNCHANGED <<transferVars, envVars, idVars, anVars, emVars, plVars, extVars>>

(***************************************************************************)
(* The payload of the create request and the caller's overrides.           *)
(***************************************************************************)
(* The keys whose values are maps, in the default payload and in the       *)
(* overrides below; every other key holds a string or a number.            *)
MapKeys == {"metadata", "schema", "field_emptiness", "properties", "pricing", "basic"}

(* deepMergeMaps: existing.(map[string]any) and value.(map[string]any)     *)
(* both succeed exactly at the keys of MapKeys that both maps have.        *)
RECURSIVE deepMergeMaps(_, _)
deepMergeMaps(base, overrides) ==
    [key \in DOMAIN base \cup DOMAIN overrides |->
        IF key \notin DOMAIN overrides THEN base[key]
        ELSE IF key \in DOMAIN base /\ key \in MapKeys
        THEN deepMergeMaps(base[key], overrides[key])
        ELSE overrides[key]]

PayloadOverrides ==
    { EmptyMap,
      [visibility |-> "restricted"],
      [category |-> "finance"],
      [pricing |-> [basic |-> [amount |-> 99]]],
      [metadata |-> [owner |-> "team-a"]],
      [metadata |-> [record_count |-> 7], visibility |-> "restricted"] }

PayloadOptions ==
    {[NewUploadOptions(n) EXCEPT !.Metadata = md, !.DatasetOverrides = ov] :
        n \in DatasetNames, md \in {EmptyMap, FlagsBoth}, ov \in PayloadOverrides}

NoPayload == [pc |-> "off", opts |-> NewUploadOptions("sales"),
              file |-> [exists |-> FALSE, data |-> <<>>], payload |-> EmptyMap]

(* createDatasetRecord up to the request it sends *)
BuildCreatePayload ==
    /\ pl.pc = "ready"
    /\ pl' = [pl EXCEPT !.pc = "sent",
                        !.payload = createDatasetPayload("company-1", pl.opts, pl.file)]
    /\ UNCHANGED <<transferVars, envVars, idVars, anVars, emVars, nqVars, extVars>>

(***************************************************************************)
(* Producer.updateDataset: the partial update of an existing record.       *)
(***************************************************************************)
updateableFields ==
    <<"name", "description", "schema", "metadata", "status",
      "visibility", "category", "access_tier", "tags",
      "size_bytes", "record_count", "s3_key", "s3_bucket_name",
      "data_freshness", "version", "version_notes", "last_updated",
      "updated_at", "updated_by">>

Restrict(m, keys) == [k \in keys \cap DOMAIN m |-> m[k]]

(* A variant that sends the payload it was given as the body.               *)
updateDatasetWholePayload(datasetID, payload, status) ==
    LET path == <<"/v1/datasets", datasetID>>
    IN  [request |-> [method |-> "PATCH", path |-> path, body |-> payload],
         err     |-> IF status = 200 THEN "nil" ELSE "failed to update dataset"]

(* updateDataset: the loop over updateableFields copies payload[field]     *)
(* when the key is present (a nil value is present too), then the PATCH.   *)
updateDataset(datasetID, payload, status) ==
    LET copied        == {i \in 1..Len(updateableFields) :
                             updateableFields[i] \in DOMAIN payload}
        updatePayload == [field \in {updateableFields[i] : i \in copied} |-> payload[field]]
        path          == <<"/v1/datasets", datasetID>>
    IN  [request |-> [method |-> "PATCH", path |-> path, body |-> updatePayload],
         err     |-> IF status = 200 THEN "nil" ELSE "failed to update dataset"]

(* The payloads handed to updateDataset: the full record of the payload    *)
(* builder, with a nil or a set description, cut down to some of its keys. *)
UpdateDescriptions == {<<"nil">>, <<"string", "weekly sales">>}

FullUpdatePayload(description) ==
    [_id |-> "company-1-sales", id |-> "company-1-sales", name |-> "sales",
     description |-> description, producer_id |-> "company-1",
     category |-> "general", data_freshness |-> "daily",
     visibility |-> "private", status |-> "active", access_tier |-> "free",
     s3_key |-> S3KeyOf("sales"), s3_bucket_name |-> "helix-bucket",
     s3_bucket |-> "helix-bucket", size_bytes |-> 42, record_count |-> 1,
     version |-> "2026-01-06", version_notes |-> "",
     parent_dataset_id |-> <<"nil">>, is_latest_version |-> TRUE,
     metadata |-> [file_format |-> "json", record_count |-> 1],
     schema |-> [type |-> "object", properties |-> EmptyMap],
     validation |-> [row_count |-> 1], tags |-> <<>>,
     pricing |-> [basic |-> [amount |-> 0]], stats |-> [downloads |-> 0],
     last_updated |-> "2026-01-06T00:00:00Z", created_at |-> "2026-01-06T00:00:00Z",
     created_by |-> "company-1", updated_at |-> "2026-01-06T00:00:00Z",
     updated_by |-> "company-1", deleted_at |-> <<"nil">>, deleted_by |-> <<"nil">>]

UpdateSampleKeys ==
    {"name", "description", "metadata", "_id", "producer_id", "created_at", "pricing"}

UpdateKeySets ==
    SUBSET UpdateSampleKeys \cup {DOMAIN FullUpdatePayload(<<"nil">>)}

UpdatePayloads ==
    {Restrict(FullUpdatePayload(d), keys) : d \in UpdateDescriptions, keys \in UpdateKeySets}

NoUpdate ==
    [pc |-> "off", datasetID |-> "", payload |-> EmptyMap,
     request |-> [method |-> "", path |-> <<>>, body |-> EmptyMap], err |-> "pending"]

UpdateDataset ==
    /\ ud.pc = "ready"
    /\ \E status \in {200, 404, 500} :
         LET r == updateDataset(ud.datasetID, ud.payload, status)
         IN  ud' = [ud EXCEPT !.pc = "sent", !.request = r.request, !.err = r.err]
    /\ UNCHANGED <<transferVars, envVars, idVars, anVars, emVars, nqVars, plVars,
                   cuVars, crVars>>

(***************************************************************************)
(* Two UploadDataset calls of one producer running at the same time on one *)
(* catalog and one object store.  The steps are those of UploadDataset;    *)
(* the calls share nothing inside the producer.                            *)
(***************************************************************************)
NoCall ==
    [pc |-> "idle", args |-> NewUploadOptions("sales"), opts |-> NewUploadOptions("sales"),
     file |-> [exists |-> FALSE, data |-> <<>>], create |-> NoCreate, data |-> <<>>,
     result |-> NoResult]

NoConcurrent ==
    [on |-> FALSE, KMSKeyID |-> "", catalog |-> EmptyMap, nextId |-> 1, bucket |-> EmptyMap,
     registered |-> <<>>, calls |-> <<>>]

Callers == {1, 2}

ConcurrentFiles ==
    {[exists |-> TRUE, data |-> <<123, 125, 10>>], [exists |-> TRUE, data |-> <<>>]}

(* UploadDataset: defaults and validation *)
CuUploadDataset(i) ==
    /\ cu.calls[i].pc = "idle"
    /\ LET v == ValidateUpload(cu.KMSKeyID, ApplyDefaults(cu.calls[i].args))
       IN  cu' = [cu EXCEPT !.calls[i].opts = v.opts,
                            !.calls[i].pc = IF v.err # "nil" THEN "done" ELSE "create",
                            !.calls[i].result = IF v.err # "nil"
                                                THEN UploadResult(NoDataset, v.err)
                                                ELSE NoResult]
    /\ UNCHANGED <<transferVars, envVars, idVars, anVars, emVars, nqVars, plVars,
                   udVars, crVars>>

(* Step 1: createDatasetRecord *)
CuCreateDatasetRecord(i) ==
    /\ cu.calls[i].pc = "create"
    /\ LET call    == cu.calls[i]
           payload == createDatasetPayload("company-1", call.opts, call.file)
       IN  \E out \in CatalogCreateOutcomes(cu.catalog, cu.nextId, payload) :
             IF out.status = 201
             THEN cu' = [cu EXCEPT
                           !.catalog = CatalogPut(cu.catalog, out.id, payload),
                           !.nextId = cu.nextId + 1,
                           !.registered = Append(cu.registered,
                                                 [call |-> i, id |-> out.id,
                                                  payload |-> payload]),
                           !.calls[i].create = [ID |-> out.id,
                                                UploadURL |-> S3KeyOf(payload.name),
                                                S3Key |-> S3KeyOf(payload.name)],
                           !.calls[i].pc = "process"]
             ELSE cu' = [cu EXCEPT
                           !.calls[i].pc = "done",
                           !.calls[i].result =
                               UploadResult(NoDataset, "failed to create dataset record")]
    /\ UNCHANGED <<transferVars, envVars, idVars, anVars, emVars, nqVars, plVars,
                   udVars, crVars>>

(* Step 2: processFile *)
CuProcessFile(i) ==
    /\ cu.calls[i].pc = "process"
    /\ \E dataKey \in RandBytes(KeySize), iv \in RandBytes(IvSize) :
       \E kmsOut \in KmsEncryptOutcomes(dataKey, TransferWrappedLens) :
         LET call == cu.calls[i]
             r    == processFile(cu.KMSKeyID, call.opts, call.file, dataKey, iv, kmsOut)
         IN  IF r.err # "nil"
             THEN cu' = [cu EXCEPT !.calls[i].pc = "done",
                                   !.calls[i].result = UploadResult(NoDataset, r.err)]
             ELSE cu' = [cu EXCEPT !.calls[i].pc = "put", !.calls[i].data = r.Data]
    /\ UNCHANGED <<transferVars, envVars, idVars, anVars, emVars, nqVars, plVars,
                   udVars, crVars>>

(* Step 3: uploadToPresignedURL *)
CuUploadToPresignedURL(i) ==
    /\ cu.calls[i].pc = "put"
    /\ \E status \in {200, 403} :
         IF status = 200
         THEN cu' = [cu EXCEPT
                       !.bucket = BucketPut(cu.bucket, cu.calls[i].create.UploadURL,
                                            cu.calls[i].data),
                       !.calls[i].pc = "fetch"]
         ELSE cu' = [cu EXCEPT
                       !.calls[i].pc = "done",
                       !.calls[i].result =
                           UploadResult(NoDataset, "dataset record created but upload failed")]
    /\ UNCHANGED <<transferVars, envVars, idVars, anVars, emVars, nqVars, plVars,
                   udVars, crVars>>

(* Step 4: fetch the record *)
CuFetchDataset(i) ==
    /\ cu.calls[i].pc = "fetch"
    /\ \E status \in {200, 500} :
         LET call == cu.calls[i]
             p    == [CustomerID |-> "company-1", KMSKeyID |-> cu.KMSKeyID,
                      BucketName |-> "helix-bucket"]
         IN  cu' = [cu EXCEPT
                      !.calls[i].pc = "done",
                      !.calls[i].result =
                          IF status = 200
                          THEN UploadResult(DatasetOf(call.create.ID,
                                                      cu.catalog[call.create.ID]), "nil")
                          ELSE UploadResult(MinimalDataset(p, call.opts, call.create), "nil")]
    /\ UNCHANGED <<transferVars, envVars, idVars, anVars, emVars, nqVars, plVars,
                   udVars, crVars>>

(***************************************************************************)
(* api.CleanupRegistry.  A cleanup function is known by the order of its   *)
(* registration and its kind: the company and subscription cleanups can    *)
(* return an error, the dataset and subscription-request cleanups only     *)
(* log.                                                                    *)
(***************************************************************************)
MaxCleanups == 3
MaxRunAlls == 2

CleanupKinds == {"company", "dataset"}

CanFail(fn) == fn.kind = "company"

ErrorOf(id) == <<"cleanup error", id>>

NoCleanup ==
    [on |-> FALSE, cleanups |-> <<>>, nextFn |-> 1, log |-> <<>>, runs |-> 0,
     last |-> [executed |-> <<>>, errors |-> <<>>, failing |-> {}]]

(* NewCleanupRegistry *)
NewCleanupRegistry == [NoCleanup EXCEPT !.on = TRUE]

(* Register *)
Register(kind) ==
    /\ cr.on
    /\ cr.nextFn <= MaxCleanups
    /\ cr' = [cr EXCEPT !.cleanups = Append(cr.cleanups, [id |-> cr.nextFn, kind |-> kind]),
                        !.nextFn = cr.nextFn + 1]
    /\ UNCHANGED <<transferVars, envVars, idVars, anVars, emVars, nqVars, plVars,
                   udVars, cuVars>>

(* RunAll, the loop: for i := len(r.cleanups) - 1; i >= 0; i--              *)
RECURSIVE runLoop(_, _, _)
runLoop(cleanups, i, failing) ==
    IF i < 1 THEN [executed |-> <<>>, errors |-> <<>>]
    ELSE LET fn   == cleanups[i]
             rest == runLoop(cleanups, i - 1, failing)
         IN  [executed |-> <<fn.id>> \o rest.executed,
              errors   |-> (IF fn.id \in failing THEN <<ErrorOf(fn.id)>> ELSE <<>>)
                           \o rest.errors]

(* A variant of RunAll that keeps the list it ran.                         *)
runAllKeepingList(cleanups, failing) ==
    LET out == runLoop(cleanups, Len(cleanups), failing)
    IN  [cleanups |-> cleanups, executed |-> out.executed, errors |-> out.errors]

(* RunAll: the loop, then r.cleanups = nil *)
runAll(cleanups, failing) ==
    LET out == runLoop(cleanups, Len(cleanups), failing)
    IN  [cleanups |-> <<>>, executed |-> out.executed, errors |-> out.errors]

(* Count *)
Count(r) == Len(r.cleanups)

RunAll ==
    /\ cr.on
    /\ cr.runs < MaxRunAlls
    /\ \E failing \in SUBSET {cr.cleanups[i].id : i \in {j \in 1..Len(cr.cleanups) :
                                                          CanFail(cr.cleanups[j])}} :
         LET out == runAll(cr.cleanups, failing)
         IN  cr' = [cr EXCEPT !.cleanups = out.cleanups,
                              !.log = cr.log \o out.executed,
                              !.runs = cr.runs + 1,
                              !.last = [executed |-> out.executed, errors |-> out.errors,
                                        failing |-> failing]]
    /\ UNCHANGED <<transferVars, envVars, idVars, anVars, emVars, nqVars, plVars,
                   udVars, cuVars>>

(***************************************************************************)
(* Specifications.                                                         *)
(***************************************************************************)
EnvelopeOff == env = NoEnvelope /\ envStore = EmptyMap

AnalyzerOff == an = NoAnalyzer

EmptinessOff == em = NoEmptiness

NotifyOff == nq = NoNotify

PayloadOff == pl = NoPayload

UpdateOff == ud = NoUpdate

ConcurrentOff == cu = NoConcurrent

CleanupOff == cr = NoCleanup

ExtOff == UpdateOff /\ ConcurrentOff /\ CleanupOff

AuxOff == AnalyzerOff /\ EmptinessOff /\ NotifyOff /\ PayloadOff /\ ExtOff

IdentityOff == clock = 0 /\ derived = <<>>

TransferOff ==
    /\ InitTransfer
    /\ producer.KMSKeyID = ""
    /\ file = [exists |-> FALSE, data |-> <<>>]

UnknownID == <<"ds", 0>>

Init == InitTransfer /\ EnvelopeOff /\ IdentityOff /\ AuxOff

Next ==
    \/ \E opts \in UploadOptionsChoices : UploadDataset(opts)
    \/ CreateDatasetRecord
    \/ ProcessFile
    \/ UploadToPresignedURL
    \/ FetchDataset
    \/ UploadReturn
    \/ \E datasetID \in DOMAIN catalog \cup {UnknownID} : DownloadDataset(datasetID)
    \/ DlGetDataset
    \/ DlHttpGet
    \/ DlProcess
    \/ DownloadReturn

Spec == Init /\ [][Next]_vars

InitEnvelope ==
    /\ TransferOff
    /\ IdentityOff
    /\ AuxOff
    /\ envStore = EmptyMap
    /\ \E k \in KMSKeyIDs, pt \in SeqsUpTo(PlainBytes, MaxPlainLen) :
         env = [NoEnvelope EXCEPT !.pc = "ready", !.KMSKeyID = k, !.plaintext = pt]

NextEnvelope == EnvEncrypt \/ EnvTruncate \/ EnvTamper \/ EnvDecrypt

SpecEnvelope == InitEnvelope /\ [][NextEnvelope]_vars

(* One upload, then a stored object that changes before it is downloaded.   *)
TamperOptions ==
    {NewUploadOptions("sales"), [NewUploadOptions("sales") EXCEPT !.Metadata = FlagsBoth]}

InitTamper ==
    /\ InitTransfer
    /\ EnvelopeOff
    /\ IdentityOff
    /\ AuxOff
    /\ producer.KMSKeyID # ""
    /\ file.exists /\ Len(file.data) = 1

NextTamper ==
    \/ \E opts \in TamperOptions : calls = <<>> /\ UploadDataset(opts)
    \/ CreateDatasetRecord
    \/ ProcessFile
    \/ UploadToPresignedURL
    \/ FetchDataset
    \/ UploadReturn
    \/ TamperObject
    \/ \E datasetID \in DOMAIN catalog : tampered /\ DownloadDataset(datasetID)
    \/ DlGetDataset
    \/ DlHttpGet
    \/ DlProcess
    \/ DownloadReturn

SpecTamper == InitTamper /\ [][NextTamper]_vars

CancelOptions ==
    {NewUploadOptions("sales"), [NewUploadOptions("sales") EXCEPT !.Metadata = FlagsBoth]}

InitCancel ==
    /\ InitTransfer
    /\ EnvelopeOff
    /\ IdentityOff
    /\ AuxOff
    /\ producer.KMSKeyID # ""
    /\ file = [exists |-> TRUE, data |-> <<123, 125>>]

NextCancel ==
    \/ \E opts \in CancelOptions : UploadDataset(opts)
    \/ CreateDatasetRecord
    \/ ProcessFile
    \/ UploadToPresignedURL
    \/ FetchDataset
    \/ UploadReturn
    \/ \E datasetID \in DOMAIN catalog : DownloadDataset(datasetID)
    \/ DlGetDataset
    \/ DlHttpGet
    \/ DlProcess
    \/ DownloadReturn
    \/ Cancel

SpecCancel == InitCancel /\ [][NextCancel]_vars

InitConcurrent ==
    /\ TransferOff
    /\ EnvelopeOff
    /\ IdentityOff
    /\ AnalyzerOff
    /\ EmptinessOff
    /\ NotifyOff
    /\ PayloadOff
    /\ UpdateOff
    /\ CleanupOff
    /\ \E name \in DatasetNames, f \in ConcurrentFiles :
         cu = [NoConcurrent EXCEPT
                  !.on = TRUE,
                  !.KMSKeyID = "alias/helix-customer",
                  !.calls = <<[NoCall EXCEPT
                                  !.args = [NewUploadOptions("sales")
                                               EXCEPT !.Description = "first"],
                                  !.file = [exists |-> TRUE, data |-> <<123, 125>>]],
                              [NoCall EXCEPT
                                  !.args = [NewUploadOptions(name)
                                               EXCEPT !.Description = "second"],
                                  !.file = f]>>]

NextConcurrent ==
    \E i \in Callers :
        \/ CuUploadDataset(i)
        \/ CuCreateDatasetRecord(i)
        \/ CuProcessFile(i)
        \/ CuUploadToPresignedURL(i)
        \/ CuFetchDataset(i)

SpecConcurrent == InitConcurrent /\ [][NextConcurrent]_vars

InitCleanup ==
    /\ TransferOff
    /\ EnvelopeOff
    /\ IdentityOff
    /\ AnalyzerOff
    /\ EmptinessOff
    /\ NotifyOff
    /\ PayloadOff
    /\ UpdateOff
    /\ ConcurrentOff
    /\ cr = NewCleanupRegistry

NextCleanup ==
    \/ \E kind \in CleanupKinds : Register(kind)
    \/ RunAll

SpecCleanup == InitCleanup /\ [][NextCleanup]_vars

InitIdentity == TransferOff /\ EnvelopeOff /\ IdentityOff /\ AuxOff

NextIdentity ==
    \/ Tick
    \/ \E name \in SeqsUpTo(NameChars, MaxNameLen), explicitID \in ExplicitIDs :
         GenerateDatasetID(name, explicitID)

SpecIdentity == InitIdentity /\ [][NextIdentity]_vars

InitAnalyzer ==
    /\ TransferOff
    /\ EnvelopeOff
    /\ IdentityOff
    /\ ExtOff
    /\ EmptinessOff
    /\ NotifyOff
    /\ PayloadOff
    /\ \E f \in AnalyzerFiles, limit \in SampleLimits :
         an = [NoAnalyzer EXCEPT !.pc = "ready", !.file = f,
                                 !.opts = AnalysisOptionsOf(limit)]

NextAnalyzer == AnalyzeData

SpecAnalyzer == InitAnalyzer /\ [][NextAnalyzer]_vars

InitEmptiness ==
    /\ TransferOff
    /\ EnvelopeOff
    /\ IdentityOff
    /\ ExtOff
    /\ AnalyzerOff
    /\ NotifyOff
    /\ PayloadOff
    /\ \E recordCount \in 0..MaxRecords, present \in 0..MaxRecords :
         /\ present <= recordCount
         /\ em = [NoEmptiness EXCEPT !.pc = "ready", !.recordCount = recordCount,
                                     !.present = present]

NextEmptiness == ComputeEmptiness

SpecEmptiness == InitEmptiness /\ [][NextEmptiness]_vars

InitNotify ==
    /\ TransferOff
    /\ EnvelopeOff
    /\ IdentityOff
    /\ ExtOff
    /\ AnalyzerOff
    /\ EmptinessOff
    /\ PayloadOff
    /\ \E bodies \in SeqsUpTo(QueueBodies, MaxQueue) :
         nq = [NoNotify EXCEPT
                  !.on = TRUE,
                  !.queue = [i \in 1..Len(bodies) |->
                                [id |-> i, body |-> bodies[i], visible |-> TRUE]]]

NextNotify ==
    \/ \E opts \in PollOptions : PollNotifications(opts)
    \/ \E i \in 1..MaxQueue : DeleteNotification(<<"rh", i>>)
    \/ VisibilityTimeout

SpecNotify == InitNotify /\ [][NextNotify]_vars

InitPayload ==
    /\ TransferOff
    /\ EnvelopeOff
    /\ IdentityOff
    /\ ExtOff
    /\ AnalyzerOff
    /\ EmptinessOff
    /\ NotifyOff
    /\ \E opts \in PayloadOptions, f \in Files :
         pl = [NoPayload EXCEPT !.pc = "ready", !.opts = opts, !.file = f]

NextPayload == BuildCreatePayload

SpecPayload == InitPayload /\ [][NextPayload]_vars

InitUpdate ==
    /\ TransferOff
    /\ EnvelopeOff
    /\ IdentityOff
    /\ AnalyzerOff
    /\ EmptinessOff
    /\ NotifyOff
    /\ PayloadOff
    /\ ConcurrentOff
    /\ CleanupOff
    /\ \E payload \in UpdatePayloads :
         ud = [NoUpdate EXCEPT !.pc = "ready", !.datasetID = "company-1-sales",
                               !.payload = payload]

NextUpdate == UpdateDataset

SpecUpdate == InitUpdate /\ [][NextUpdate]_vars

(***************************************************************************)
(* Properties.                                                             *)
(***************************************************************************)
PreconditionsHold(opts, p) == opts.Encrypt /\ opts.Compress /\ p.KMSKeyID # ""

SucceededFor(id) == \E i \in 1..Len(calls) : calls[i].err = "nil" /\ calls[i].id = id

PutSucceeded == \E i \in 1..Len(upTrace) : upTrace[i].op = "PUT" /\ upTrace[i].status = 200

FetchFailed == \E i \in 1..Len(upTrace) : upTrace[i].op = "GET" /\ upTrace[i].status # 200

CreateConflicted == \E i \in 1..Len(upTrace) : upTrace[i].op = "POST" /\ upTrace[i].status = 409

EmptySource == file.exists /\ file.data = <<>>

(* C1: a download that succeeds for a dataset whose upload succeeded has    *)
(* read both settings as true, as the producer compressed and encrypted,   *)
(* and has written the bytes of the source file.                            *)
C1_RoundTripRestoresSource ==
    (dlPc = "done" /\ dlErr = "nil" /\ SucceededFor(dlId))
        => /\ dlFlags.isEncrypted /\ dlFlags.isCompressed
           /\ dlOut.written
           /\ dlOut.data = file.data

C3_StageOrder ==
    /\ \A j \in 1..Len(upTrace) :
         /\ upTrace[j].op = "encrypt"
              => \E i \in 1..(j - 1) : /\ upTrace[i].op = "compress"
                                       /\ upTrace[i].status = "nil"
                                       /\ upTrace[i].out = upTrace[j].in
         /\ upTrace[j].op = "compress"
              => \A i \in 1..(j - 1) : upTrace[i].op # "encrypt"
    /\ \A j \in 1..Len(dlTrace) :
         dlTrace[j].op = "decompress"
           => /\ dlFlags.isEncrypted => HasOp(dlTrace, "decrypt")
              /\ \A i \in 1..Len(dlTrace) :
                   dlTrace[i].op = "decrypt"
                     => i < j /\ dlTrace[i].status = "nil" /\ dlTrace[i].out = dlTrace[j].in

C3_Witness ==
    /\ dlPc = "done" /\ dlErr = "nil"
    /\ dlLen > largeFileThreshold
    /\ HasOp(dlTrace, "decrypt") /\ HasOp(dlTrace, "decompress")
    /\ SucceededFor(dlId)

C5_IdentityFromNameOnly ==
    \A i, j \in 1..Len(derived) :
        (/\ derived[i].name = derived[j].name
         /\ derived[i].explicitID.val = <<>>
         /\ derived[j].explicitID.val = <<>>)
            => derived[i].id = derived[j].id

(* C6: two successful uploads under the same name reported the same record  *)
(* id, and the catalog holds one record of that name.                       *)
C6_IdempotentRegistration ==
    \A i, j \in 1..Len(calls) :
        (i < j /\ calls[i].err = "nil" /\ calls[j].err = "nil" /\ calls[i].name = calls[j].name)
            => /\ calls[i].id = calls[j].id
               /\ Cardinality({id \in DOMAIN catalog : catalog[id].name = calls[i].name}) = 1

(* C7: a call whose create request was answered 409 made one create         *)
(* request, went on to a partial update, and did not fail for the conflict. *)
C7_ConflictFallsBackToUpdate ==
    (upPc = "done" /\ CreateConflicted)
        => /\ HasOp(upTrace, "PATCH")
           /\ Cardinality({i \in 1..Len(upTrace) : upTrace[i].op = "POST"}) = 1
           /\ upResult.err # "failed to create dataset record"

(* C8: when the object was put and the catalog step after it failed, the    *)
(* result is marked as uploaded but unregistered, which neither a full      *)
(* success nor a failure is, and carries the storage key.                   *)
C8_UploadedUnregisteredIsDistinct ==
    (upPc = "done" /\ PutSucceeded /\ FetchFailed)
        => /\ upResult.dataset.S3Key = upCreate.S3Key
           /\ \/ upResult.err = "uploaded but unregistered"
              \/ /\ "status" \in DOMAIN upResult.dataset.Metadata
                 /\ upResult.dataset.Metadata.status = "uploaded_unregistered"

(* C9: when the object was put and the catalog request after it failed,     *)
(* the call returns an error.                                               *)
C9_CatalogFailureIsAnError ==
    (upPc = "done" /\ PutSucceeded /\ FetchFailed) => upResult.err # "nil"

(* C10: when KMS returned a wrapped key w, the container is the 4-byte      *)
(* big-endian length of w, then w, the 16-byte iv, the 16-byte tag and the  *)
(* ciphertext, 4 + len(w) + 16 + 16 + len(plaintext) bytes in all.          *)
C10_EnvelopeLayout ==
    (env.pc \in {"encrypted", "decrypted"} /\ env.KMSKeyID # "" /\ env.kmsOut.err = "nil")
        => LET w      == env.kmsOut.CiphertextBlob
               n      == Len(w)
               c      == env.out.data
               sealed == Seal(env.dataKey, env.iv, env.plaintext)
               m      == Len(env.plaintext)
           IN  /\ env.out.err = "nil"
               /\ Len(c) = 4 + n + 16 + 16 + m
               /\ c[1] * 16777216 + c[2] * 65536 + c[3] * 256 + c[4] = n
               /\ SubSeq(c, 5, 4 + n) = w
               /\ SubSeq(c, 5 + n, 20 + n) = env.iv
               /\ SubSeq(c, 21 + n, 36 + n) = SubSeq(sealed, m + 1, m + 16)
               /\ SubSeq(c, 37 + n, Len(c)) = SubSeq(sealed, 1, m)

C10_Witness ==
    /\ env.pc = "encrypted" /\ env.out.err = "nil"
    /\ Len(env.kmsOut.CiphertextBlob) = 258
    /\ Len(env.plaintext) >= 1

(* C11: when the container arrives as written and KMS answers, decryptData  *)
(* has parsed the wrapped key, the iv, the tag and the ciphertext that     *)
(* encryptData wrote, and returns the original plaintext.                   *)
C11_EnvelopeRoundTrip ==
    (env.pc = "decrypted" /\ env.damage = "none" /\ env.kmsUp)
        => LET sealed == Seal(env.dataKey, env.iv, env.plaintext)
               m      == Len(env.plaintext)
               parsed == env.dec.parsed
           IN  /\ env.dec.err = "nil"
               /\ env.dec.data = env.plaintext
               /\ parsed.encryptedKey.got = env.kmsOut.CiphertextBlob
               /\ parsed.encryptedKey.pad = 0
               /\ parsed.iv = env.iv
               /\ parsed.authTag = SubSeq(sealed, m + 1, m + 16)
               /\ parsed.encryptedData = SubSeq(sealed, 1, m)

C11_Witness ==
    /\ env.pc = "decrypted" /\ env.damage = "none" /\ env.kmsUp
    /\ env.kmsOut.CiphertextBlob = <<>>
    /\ env.plaintext = <<>>
    /\ env.dec.err = "nil"

(* C12: a container cut short of its header (length, wrapped key, iv, tag)  *)
(* makes decryptData fail with a read error at one of its read steps: the  *)
(* call does not go on to unwrap the key or to open the ciphertext.         *)
C12_TruncatedFailsAtRead ==
    (/\ env.pc = "decrypted"
     /\ env.damage = "truncated"
     /\ Len(env.wire) < 4 + Len(env.kmsOut.CiphertextBlob) + 16 + 16)
        => /\ env.dec.err \in {"EOF", "unexpected EOF"}
           /\ env.dec.step \in {"keyLen", "encryptedKey", "iv", "authTag"}

(* C13, the download: once a byte of the stored envelope has changed, a     *)
(* finished download has returned an error and written nothing.             *)
C13_TamperedDownloadFails ==
    (dlPc = "done" /\ tampered) => (dlErr # "nil" /\ ~dlOut.written)

(* C13, the cipher: decryptData on a container with one byte changed        *)
(* returns an error and no plaintext.                                       *)
C13_TamperedDecryptFails ==
    (env.pc = "decrypted" /\ env.damage = "tampered")
        => (env.dec.err # "nil" /\ env.dec.data = <<>>)

(***************************************************************************)
(* The analyzer.                                                           *)
(***************************************************************************)
IsJSONObject(line) == line.kind = "json" /\ line.v.t = "object"

NonBlank(lines) == {i \in 1..Len(lines) : lines[i].kind # "blank"}

ObjectLines(lines) == {i \in NonBlank(lines) : IsJSONObject(lines[i])}

OnlyObjectLines(f) == [f EXCEPT !.lines = SelectSeq(@, IsJSONObject)]

(* C14: after a scan that read the whole file, RecordCount is the number   *)
(* of non-blank lines that are a JSON object, AnalysisErrors the number of *)
(* non-blank lines that are not, and the lines that are not a JSON object  *)
(* leave the schema and the field emptiness as they are without them.      *)
C14_LineAccounting ==
    (an.pc = "done" /\ an.result.err = "nil")
        => LET lines   == an.file.lines
               objects == ObjectLines(lines)
               alone   == analyzeLines(OnlyObjectLines(an.file), an.opts)
           IN  /\ an.result.RecordCount = Cardinality(objects)
               /\ an.result.AnalysisErrors = Cardinality(NonBlank(lines)) - Cardinality(objects)
               /\ an.result.Schema = alone.Schema
               /\ an.result.FieldEmptiness = alone.FieldEmptiness

(* What does hold of the counts: every non-blank line is counted once, as  *)
(* a record or as an error, and an error does not end the scan.            *)
C14_EveryNonBlankLineCounted ==
    (an.pc = "done" /\ an.result.err = "nil")
        => an.result.RecordCount + an.result.AnalysisErrors
               = Cardinality(NonBlank(an.file.lines))

(* the records the scan parsed, in file order *)
ParsedRecords(lines) ==
    LET parsed == SelectSeq(lines, LAMBDA l : l.kind # "blank" /\ jsonUnmarshal(l).err = "nil")
    IN  [i \in 1..Len(parsed) |-> jsonUnmarshal(parsed[i]).record]

RECURSIVE PropertiesOf(_)
PropertiesOf(records) ==
    IF records = <<>> THEN EmptyMap
    ELSE addProperties(records[Len(records)],
                       PropertiesOf(SubSeq(records, 1, Len(records) - 1)))

C16_EmptinessArithmetic ==
    (em.pc = "done" /\ em.recordCount > 0)
        => /\ em.emptiness = HalfUpHundredths(em.recordCount, em.present)
           /\ em.emptiness >= 0
           /\ em.emptiness <= 10000

(* What does hold of the arithmetic: the value is within 0 and 100 and no  *)
(* more than one hundredth below the half-up rounding.                     *)
C16_EmptinessWithinAHundredth ==
    (em.pc = "done" /\ em.recordCount > 0)
        => LET exact == HalfUpHundredths(em.recordCount, em.present)
           IN  /\ em.emptiness \in {exact - 1, exact}
               /\ em.emptiness >= 0
               /\ em.emptiness <= 10000

(* and in the analyzer: without records the mapping is empty, and every    *)
(* reported value is the arithmetic applied to the field's presence count. *)
C16_EmptinessOfScan ==
    (an.pc = "done" /\ an.result.err = "nil")
        => LET records == ParsedRecords(an.file.lines)
               presentCount(field) ==
                   Cardinality({i \in 1..Len(records) :
                                   field \in getFieldStatus(records[i], "").present})
           IN  /\ an.result.RecordCount = 0 => an.result.FieldEmptiness = EmptyMap
               /\ \A field \in DOMAIN an.result.FieldEmptiness :
                      an.result.FieldEmptiness[field]
                          = emptinessOf(an.result.RecordCount, presentCount(field))

(***************************************************************************)
(* The order of the producer's stages.                                     *)
(***************************************************************************)
StageRank(op) ==
    CASE op = "analyze"  -> 1
      [] op = "compress" -> 2
      [] op = "encrypt"  -> 3
      [] op = "PUT"      -> 4
      [] op = "POST"     -> 5
      [] OTHER           -> 0

Stages(trace) == SelectSeq(trace, LAMBDA e : StageRank(e.op) > 0)

StageFailed(e) ==
    CASE e.op = "PUT"  -> e.status # 200
      [] e.op = "POST" -> e.status # 201
      [] OTHER         -> e.status # "nil"

(* C17: in every run the stages come in the order analyze, compress,       *)
(* encrypt, object upload, catalog registration; registration is attempted *)
(* only after an object upload that succeeded; and a stage that fails is   *)
(* the last stage of its run.                                              *)
C17_RegistrationAfterUpload ==
    LET stages == Stages(upTrace)
    IN  /\ \A i, j \in 1..Len(stages) :
               i < j => StageRank(stages[i].op) < StageRank(stages[j].op)
        /\ \A j \in 1..Len(stages) :
               stages[j].op = "POST"
                   => \E i \in 1..(j - 1) : stages[i].op = "PUT" /\ stages[i].status = 200
        /\ \A i \in 1..Len(stages) : StageFailed(stages[i]) => i = Len(stages)

QueueIds(queue) == {queue[i].id : i \in 1..Len(queue)}

PollStep == nq'.polls = nq.polls + 1 /\ nq'.last.err = "nil"

IssuedNow == SubSeq(nq'.log, Len(nq.log) + 1, Len(nq'.log))

(* C19: a poll with AutoAcknowledge unset or true has issued, before it    *)
(* returns, a delete for the receipt handle of every notification it       *)
(* returns; a poll with AutoAcknowledge false issues no delete and leaves  *)
(* every message in the queue; and a message leaves the queue only in a    *)
(* step that issued a delete for its receipt handle.                       *)
C19_Acknowledgement ==
    [][/\ PollStep
          => LET last == nq'.last
                 auto == last.opts.AutoAcknowledge
             IN  /\ (auto.isNil \/ auto.v)
                       => /\ last.deletes = IssuedNow
                          /\ \A i \in 1..Len(last.notifications) :
                                \E j \in 1..Len(last.deletes) :
                                    /\ last.deletes[j].by = "poll"
                                    /\ last.deletes[j].handle
                                           = last.notifications[i].ReceiptHandle
                 /\ (~auto.isNil /\ ~auto.v)
                       => /\ last.deletes = <<>>
                          /\ IssuedNow = <<>>
                          /\ QueueIds(nq'.queue) = QueueIds(nq.queue)
                          /\ \A i \in 1..Len(last.notifications) :
                                last.notifications[i].MessageID \in QueueIds(nq'.queue)
       /\ \A id \in QueueIds(nq.queue) \ QueueIds(nq'.queue) :
             \E j \in 1..Len(IssuedNow) : IssuedNow[j].handle = <<"rh", id>>]_vars

(* a poll that acknowledged has removed a message, and a later poll with   *)
(* AutoAcknowledge false has returned one that is still in the queue       *)
C19_Witness ==
    /\ nq.polls = 2
    /\ nq.last.err = "nil"
    /\ nq.last.opts.AutoAcknowledge = BoolPtr(FALSE)
    /\ nq.last.notifications # <<>>
    /\ nq.last.notifications[1].MessageID \in QueueIds(nq.queue)
    /\ \E j \in 1..Len(nq.log) : nq.log[j].by = "poll" /\ nq.log[j].ok
    /\ Len(nq.queue) = 1

(***************************************************************************)
(* The overrides in the create payload.                                    *)
(***************************************************************************)
DefaultPayload ==
    createDatasetPayload("company-1", [pl.opts EXCEPT !.DatasetOverrides = EmptyMap], pl.file)

(* C20: the payload sent for creation is the default payload with the      *)
(* overrides merged into it recursively: maps are merged key by key, any   *)
(* other override value replaces the default.                              *)
C20_OverridesDeepMerged ==
    pl.pc = "sent" => pl.payload = deepMergeMaps(DefaultPayload, pl.opts.DatasetOverrides)

(* What does hold: the overrides are copied over the top-level keys of the *)
(* default payload.                                                        *)
C20_OverridesCopiedAtTopLevel ==
    pl.pc = "sent" => pl.payload = MapsCopy(DefaultPayload, pl.opts.DatasetOverrides)


(***************************************************************************)
(* The analysis carried by the record of a run whose analyzer failed.      *)
(***************************************************************************)
AnalyzerFailed ==
    /\ Len(upTrace) >= 2
    /\ upTrace[1].op = "analyze"
    /\ upTrace[1].status # "nil"

RecordCreated ==
    /\ AnalyzerFailed
    /\ upTrace[2].op = "POST"
    /\ upTrace[2].status = 201

(* C21: when the analyzer fails the run still sends its create request,    *)
(* the failure it reports (if any) is that of a later stage, and the       *)
(* record it created carries an empty analysis: an empty schema, an empty  *)
(* field-emptiness mapping and a record count of 0.                        *)
C21_EmptyAnalysisOnFailure ==
    /\ AnalyzerFailed => upTrace[2].op = "POST"
    /\ RecordCreated
           => LET metadata == catalog[upCreate.ID].metadata
              IN  /\ {"schema", "field_emptiness", "record_count"} \subseteq DOMAIN metadata
                  /\ metadata.schema = EmptyMap
                  /\ metadata.field_emptiness = EmptyMap
                  /\ metadata.record_count = 0

(* What does hold: the run goes on to the create request and the record    *)
(* carries the caller's metadata and no analysis entry at all.             *)
C21_NoAnalysisOnFailure ==
    /\ AnalyzerFailed => upTrace[2].op = "POST"
    /\ RecordCreated => catalog[upCreate.ID].metadata = upOpts.Metadata


(***************************************************************************)
(* The body of the partial update.                                         *)
(***************************************************************************)
AllowList == {updateableFields[i] : i \in 1..Len(updateableFields)}

ImmutableKeys == {"_id", "id", "producer_id", "created_at", "created_by"}

(* C22: the body of the PATCH has a key exactly when the key is in the     *)
(* allow-list and in the input payload, and then with the payload's value; *)
(* none of _id, id, producer_id, created_at, created_by is in the body.    *)
C22_UpdateAllowList ==
    ud.pc = "sent"
        => /\ ud.request.method = "PATCH"
           /\ DOMAIN ud.request.body = AllowList \cap DOMAIN ud.payload
           /\ \A key \in DOMAIN ud.request.body : ud.request.body[key] = ud.payload[key]
           /\ DOMAIN ud.request.body \cap ImmutableKeys = {}

(* an update was sent for a payload that has allowed keys, one of them     *)
(* nil, and keys outside the allow-list                                    *)
C22_Witness ==
    /\ ud.pc = "sent"
    /\ {"name", "description", "_id", "producer_id", "pricing"} \subseteq DOMAIN ud.payload
    /\ ud.payload.description = <<"nil">>
    /\ DOMAIN ud.request.body = {"name", "description"}


(***************************************************************************)
(* The field paths of the objects inside arrays.                           *)
(***************************************************************************)
(* The paths P[].k of every object element of every non-empty array at a   *)
(* path P of obj, and those of them whose k is non-empty in some element;  *)
(* firstOnly keeps only the arrays whose first element is an object.       *)
RECURSIVE ArrayFields(_, _, _)
ArrayFields(obj, prefix, firstOnly) ==
    LET fieldPathOf(key) == IF prefix # "" THEN prefix \o "." \o key ELSE key
        below(key) ==
            LET value == obj[key]
                P     == fieldPathOf(key)
            IN  IF isEmptyValue(value) THEN NoFields
                ELSE IF value.t = "object" THEN ArrayFields(value.o, P, firstOnly)
                ELSE IF value.t = "array" /\ (firstOnly => value.a[1].t = "object")
                THEN LET items == {i \in 1..Len(value.a) : value.a[i].t = "object"}
                         inner(i) == ArrayFields(value.a[i].o, P \o "[]", firstOnly)
                     IN  [all     |-> {P \o "[]." \o k : k \in UNION {DOMAIN value.a[i].o : i \in items}}
                                      \cup UNION {inner(i).all : i \in items},
                          present |-> {P \o "[]." \o k :
                                          k \in UNION {{kk \in DOMAIN value.a[i].o :
                                                           ~isEmptyValue(value.a[i].o[kk])}
                                                       : i \in items}}
                                      \cup UNION {inner(i).present : i \in items}]
                ELSE NoFields
    IN  [all     |-> UNION {below(key).all : key \in DOMAIN obj},
         present |-> UNION {below(key).present : key \in DOMAIN obj}]

ArrayFieldsReported(firstOnly) ==
    (an.pc = "done" /\ an.result.err = "nil")
        => \A i \in 1..Len(an.file.lines) :
               IsJSONObject(an.file.lines[i])
                   => LET record   == jsonUnmarshal(an.file.lines[i]).record
                          expected == ArrayFields(record, "", firstOnly)
                          status   == getFieldStatus(record, "")
                      IN  /\ expected.all \subseteq status.all
                          /\ expected.present \subseteq status.present
                          /\ expected.all \subseteq DOMAIN an.result.FieldEmptiness

(* C23: for every non-empty array at a path P of a record, each key k of   *)
(* each element that is an object is discovered as P[].k, whatever the     *)
(* other elements are, and P[].k is present when k is non-empty in one of  *)
(* the elements; the discovered paths are in the reported emptiness.       *)
C23_ArrayTraversal == ArrayFieldsReported(FALSE)

(* What does hold: the same for the arrays whose first element is an       *)
(* object.                                                                 *)
C23_ArrayTraversalFirstObject == ArrayFieldsReported(TRUE)


(***************************************************************************)
(* The two branches of the download.                                       *)
(***************************************************************************)
Processed == dlPc = "done" /\ dlTrace # <<>>

BytesDownloaded == dlTrace[1].in.io \in {"none", "write"}

(* C24: a download goes through the temporary file exactly when the        *)
(* declared size is over the threshold (an unknown size or one at the      *)
(* threshold is processed in memory); and once the bytes are downloaded,   *)
(* what the call writes and returns is what either branch gives for those  *)
(* bytes, flags, key service answer and write outcome.                     *)
C24_StagingIsOnlyAnOptimisation ==
    Processed
        => LET how      == dlTrace[1]
               staged   == downloadStaged(dlBody, dlFlags.isEncrypted, dlFlags.isCompressed,
                                          kmsStore, how.in.kmsUp, how.in.io)
               inMemory == downloadInMemory(dlBody, dlFlags.isEncrypted, dlFlags.isCompressed,
                                            kmsStore, how.in.kmsUp, how.in.io)
           IN  /\ how.op = "staged" <=> dlLen > largeFileThreshold
               /\ how.op = "memory" <=> dlLen <= largeFileThreshold
               /\ BytesDownloaded
                      => /\ staged.err = inMemory.err
                         /\ staged.data = inMemory.data
                         /\ dlErr = inMemory.err
                         /\ dlErr = staged.err
                         /\ dlOut.written <=> dlErr = "nil"
                         /\ dlOut.written => /\ dlOut.data = staged.data
                                             /\ dlOut.data = inMemory.data

(* a download over the threshold went through the temporary file, was      *)
(* decrypted and decompressed, and wrote the source file's bytes           *)
C24_Witness ==
    /\ Processed
    /\ dlTrace[1].op = "staged"
    /\ dlTrace[1].in.io = "none"
    /\ dlFlags.isEncrypted /\ dlFlags.isCompressed
    /\ dlErr = "nil"
    /\ dlOut.written
    /\ dlOut.data = file.data


(***************************************************************************)
(* Cancellation.                                                           *)
(***************************************************************************)
(* The steps in which an operation made with the context succeeds.         *)
ContextBoundSucceeds ==
    \/ catalog' # catalog
    \/ bucket' # bucket
    \/ kmsStore' # kmsStore
    \/ upPc = "fetch" /\ upTrace'[Len(upTrace')].status = 200
    \/ dlPc = "idle" /\ dlPc' = "meta"
    \/ dlPc = "meta" /\ dlPc' = "get"
    \/ dlPc = "process" /\ \E i \in 1..Len(dlTrace') :
                              dlTrace'[i].op = "decrypt" /\ dlTrace'[i].status = "nil"

ObjectDownloaded == dlPc = "get" /\ dlPc' = "process"

ReturnsNoError ==
    \/ upPc # "done" /\ upPc' = "done" /\ upResult'.err = "nil"
    \/ dlPc # "done" /\ dlPc' = "done" /\ dlErr' = "nil"

(* C25: once the caller has cancelled, no catalog call, key wrap or        *)
(* unwrap, object upload or object download of the transfer goes through,  *)
(* and the call returns an error.                                          *)
C25_Cancellation ==
    [][cancelled => ~ContextBoundSucceeds /\ ~ObjectDownloaded /\ ~ReturnsNoError]_vars

(* What does hold: once the caller has cancelled, no catalog call, key     *)
(* wrap or unwrap, or object upload goes through.                          *)
C25_ContextBoundCallsStop ==
    [][cancelled => ~ContextBoundSucceeds]_vars


(***************************************************************************)
(* The operations one call issues.                                         *)
(***************************************************************************)
Issued(trace, op) == Cardinality({i \in 1..Len(trace) : trace[i].op = op})

(* create, key wrap, object upload and fetch of the upload in progress     *)
UploadOpsOnce ==
    \A op \in {"POST", "encrypt", "PUT", "GET"} : Issued(upTrace, op) <= 1

DlRank(pc) ==
    CASE pc = "idle"    -> 0
      [] pc = "meta"    -> 1
      [] pc = "get"     -> 2
      [] pc = "process" -> 3
      [] pc = "done"    -> 4

(* The download issues its authorization in the step that leaves "idle",   *)
(* its catalog fetch in the step that leaves "meta", its object download   *)
(* in the step that leaves "get" and its key unwrap in the step that       *)
(* leaves "process": a call that never comes back to a position issues     *)
(* each of them once.                                                      *)
DownloadStepsForward ==
    /\ dlPc' # dlPc
           => \/ DlRank(dlPc') > DlRank(dlPc)
              \/ dlPc = "done" /\ dlPc' = "idle"
    /\ dlPc' = dlPc => UNCHANGED dlVars
    /\ Issued(dlTrace', "decrypt") <= 1

(* C26: within one UploadDataset or DownloadDataset call the catalog       *)
(* create, the catalog fetch, the download authorization, the object       *)
(* transfer and the key wrap or unwrap are each issued at most once, also  *)
(* after one of them failed.                                               *)
C26_NoInternalRetry ==
    [][UploadOpsOnce' /\ DownloadStepsForward]_vars

(* an upload has ended on a failed PUT that was sent once                  *)
C26_Witness ==
    /\ upPc = "done"
    /\ upResult.err = "dataset record created but upload failed"
    /\ Issued(upTrace, "PUT") = 1
    /\ \E i \in 1..Len(upTrace) : upTrace[i].op = "PUT" /\ upTrace[i].status = 403


(***************************************************************************)
(* Two uploads at the same time.                                           *)
(***************************************************************************)
BothDone == cu.on /\ \A i \in Callers : cu.calls[i].pc = "done"

SameIdentity == cu.calls[1].args.DatasetName = cu.calls[2].args.DatasetName

RecordsNamed(name) ==
    {id \in DOMAIN cu.catalog :
        cu.catalog[id].name = name /\ cu.catalog[id].producer_id = "company-1"}

(* C27: when two uploads of one producer and one dataset name have both    *)
(* returned and one of them registered, the catalog holds exactly one      *)
(* record of that name, and its content is the one sent by the call that   *)
(* registered last.                                                        *)
C27_LastWriteWins ==
    (BothDone /\ SameIdentity /\ cu.registered # <<>>)
        => LET name    == cu.calls[1].args.DatasetName
               records == RecordsNamed(name)
               last    == cu.registered[Len(cu.registered)]
           IN  /\ Cardinality(records) = 1
               /\ \A id \in records : cu.catalog[id] = last.payload

(* What does hold: the catalog holds one record per create request that    *)
(* was answered 201, each with the content its own call sent; no call      *)
(* writes the record of another.                                           *)
C27_OneRecordPerCreate ==
    cu.on
        => /\ Cardinality(DOMAIN cu.catalog) = Len(cu.registered)
           /\ \A j \in 1..Len(cu.registered) :
                  /\ cu.registered[j].id \in DOMAIN cu.catalog
                  /\ cu.catalog[cu.registered[j].id] = cu.registered[j].payload


(***************************************************************************)
(* The cleanup registry.                                                   *)
(***************************************************************************)
RunAllStep == cr'.runs = cr.runs + 1

NoRepeat(log) == \A i, j \in 1..Len(log) : log[i] = log[j] => i = j

(* C28: a RunAll executes the registered functions, each once, the last    *)
(* registered first, going on after a function that returned an error; it  *)
(* returns the errors in the order of execution and leaves the registry    *)
(* empty (Count() = 0); over all the RunAlls no function runs twice, so a  *)
(* RunAll on the emptied registry runs nothing.                            *)
C28_RunAllLifoOnce ==
    [][RunAllStep
          => LET n    == Len(cr.cleanups)
                 last == cr'.last
                 ran  == {k \in 1..n : last.executed[k] \in last.failing}
             IN  /\ Len(last.executed) = n
                 /\ \A k \in 1..n : last.executed[k] = cr.cleanups[n + 1 - k].id
                 /\ Len(last.errors) = Cardinality(ran)
                 /\ \A e \in 1..Len(last.errors) :
                        \E k \in ran :
                            /\ last.errors[e] = ErrorOf(last.executed[k])
                            /\ Cardinality({m \in ran : m < k}) = e - 1
                 /\ Count(cr') = 0
                 /\ cr'.log = cr.log \o last.executed
                 /\ NoRepeat(cr'.log)]_vars

(* three functions were registered, a RunAll ran them and a second RunAll  *)
(* on the emptied registry ran nothing                                     *)
C28_Witness ==
    /\ cr.on
    /\ cr.runs = 2
    /\ Len(cr.log) = 3
    /\ cr.last.executed = <<>>
    /\ Count(cr) = 0


(***************************************************************************)
(* Records left by failed uploads.                                         *)
(***************************************************************************)
ProcessErrors ==
    {"failed to read file", "file is empty", "compression failed", "encryption failed"}

FailedInProcessing == upPc = "done" /\ upResult.err \in ProcessErrors

(* C29: an upload that returns an error because the source file is         *)
(* missing, unreadable or empty, or because compression or encryption      *)
(* failed, has created no catalog record.                                  *)
C29_NoOrphanRecord ==
    FailedInProcessing
        => /\ \A i \in 1..Len(upTrace) :
                  ~(upTrace[i].op = "POST" /\ upTrace[i].status = 201)
           /\ upCreate.ID \notin DOMAIN catalog

(* What does hold: every such upload has created its record before it     *)
(* failed, and has put no object.                                          *)
C29_RecordCreatedBeforeProcessing ==
    FailedInProcessing
        => /\ upTrace[2].op = "POST" /\ upTrace[2].status = 201
           /\ upCreate.ID \in DOMAIN catalog
           /\ ~HasOp(upTrace, "PUT")


(***************************************************************************)
(* The messages a poll skips.                                              *)
(***************************************************************************)
ReturnedIds(poll) == {poll.notifications[i].MessageID : i \in 1..Len(poll.notifications)}

ReturnedHandles(poll) ==
    {poll.notifications[i].ReceiptHandle : i \in 1..Len(poll.notifications)}

(* a body that cannot be parsed or has an unknown format, or a             *)
(* notification of a subscription the caller did not ask for               *)
Skipped(body, opts) ==
    LET parsed == parseMessageBody(body)
    IN  \/ parsed.err # "nil"
        \/ /\ opts.SubscriptionIDs # <<>>
           /\ \A i \in 1..Len(opts.SubscriptionIDs) :
                  opts.SubscriptionIDs[i] # parsed.data.SubscriptionID

(* C30: a poll issues a delete only for the receipt handle of a            *)
(* notification it returns; a message whose body cannot be parsed or has   *)
(* an unknown format, or that the SubscriptionIDs filter leaves out, is    *)
(* not returned, no delete is issued for it and it is still in the queue   *)
(* after the poll, whatever AutoAcknowledge is.                            *)
C30_DeletesOnlyReturned ==
    [][PollStep
          => LET last == nq'.last
             IN  /\ \A j \in 1..Len(IssuedNow) :
                        /\ IssuedNow[j].by = "poll"
                        /\ IssuedNow[j].handle \in ReturnedHandles(last)
                 /\ \A i \in 1..Len(nq.queue) :
                        Skipped(nq.queue[i].body, last.opts)
                            => /\ nq.queue[i].id \notin ReturnedIds(last)
                               /\ nq.queue[i].id \in QueueIds(nq'.queue)
                               /\ \A j \in 1..Len(IssuedNow) :
                                      IssuedNow[j].handle # ReceiptHandleOf(nq.queue[i])]_vars

(* an acknowledging poll received two messages, returned and deleted one   *)
(* and left the one it could not use, now invisible, in the queue          *)
C30_Witness ==
    /\ nq.polls = 1
    /\ nq.last.err = "nil"
    /\ nq.last.opts.AutoAcknowledge = NilBool
    /\ Len(nq.last.notifications) = 1
    /\ Len(nq.last.deletes) = 1 /\ nq.last.deletes[1].ok
    /\ Len(nq.queue) = 1
    /\ ~nq.queue[1].visible
    /\ Skipped(nq.queue[1].body, nq.last.opts)

=============================================================================
